---------------------------- MODULE Spec2Model ----------------------------
(***************************************************************************)
(* A model of the questionnaire answering system:                          *)
(*   - IntelligentCompletionManager  (completion detector)                 *)
(*   - ContinuousAnsweringEnhancer   (continuous answering loop)           *)
(*   - QuestionnaireSystem           (session start / stop / cleanup)      *)
(*   - WindowMonitoringSystem        (window-closed monitor)               *)
(*   - UnifiedResourceCleanupManager (six-phase resource cleanup)          *)
(*   - DigitalPersonMemoryManager    (the memory of a session)             *)
(*   - QinguoProxyManager            (proxy leases of the sessions)        *)
(* Each component has its own specification (SpecDetector, SpecLoop,       *)
(* SpecSession, SpecMonitor, SpecCleanup, SpecProxy) over the shared       *)
(* variables; a specification leaves the variables of the other components *)
(* unchanged.  SpecStop runs the loop and the cleanup of its session side  *)
(* by side, SpecMemory runs the loop with a memory manager.  SpecStore     *)
(* calls the memory manager's operations in any order, SpecCoffee records  *)
(* and looks up two longer questions, and SpecFeatures applies the         *)
(* fingerprint and the similarity score to bounded texts.  SpecNavigation  *)
(* calls performIntelligentNavigation on every page state, SpecTimers      *)
(* starts and stops the monitoring of one session any number of times, and *)
(* SpecHistory runs detections with updateConfig called in between.        *)
(*                                                                         *)
(* Strings are sequences of one-character strings, so that toLowerCase and *)
(* includes are computed as the code computes them.  A non-ASCII character *)
(* is written as its code point ("U+95EE").                                *)
(***************************************************************************)
EXTENDS Integers, Sequences, FiniteSets, TLC

VARIABLES
  \* ---- IntelligentCompletionManager
  pageStateHistory,      \* PageStateHistory[]
  completionCheckCount,  \* number of detections started
  config,                \* DetectionConfig (maxHistoryRecords)
  detPage,               \* the page the last detection looked at (NoPage before)
  detResult              \* the CompletionDetectionResult last returned (NoResult before)

VARIABLES
  \* ---- ContinuousAnsweringEnhancer.executeContinuousAnswering
  maxContinuousAttempts,   \* the field set by setMaxContinuousAttempts
  loopPc,                  \* "idle", the step the call is at, or "returned"
  attempt,                 \* the for loop's counter
  pagesProcessed,
  totalQuestionsAnswered,
  continuousFailures,
  pageState,               \* the round's page analysis
  completionResult,        \* the round's detector verdict
  loopResult,              \* the value returned
  \* history variables of the call
  roundsStarted,           \* times the loop body was entered
  roundsCompleted,         \* rounds whose navigation succeeded
  roundTrace,              \* the steps the current round has run
  absorbed,                \* a step of the current round caught an exception of its own
  streakNavOnly,           \* the current failure streak holds navigation failures only
  exitCause                \* which termination condition ended the call

VARIABLES
  \* ---- QuestionnaireSystem, QinguoProxyManager, AdsPowerManager, LifecycleManager
  sessStatus,        \* activeSessions: session id -> status, "absent" when not in the map
  sessError,         \* session.error
  sessResult,        \* session.result
  execPc,            \* where executeAnswering(sessionId) is
  stopPc,            \* where the stopSession(sessionId) call in progress is
  allocatedProxies,  \* QinguoProxyManager.allocatedProxies: the keys
  activeBrowsers,    \* AdsPowerManager.activeBrowsers: the keys
  browsers,          \* the AdsPower browsers that run, by the session they serve
  events,            \* LifecycleManager.events: session id -> event types
  \* history variables
  stopCalls,         \* stopSession calls made per session
  stopsOutsideRun,   \* a stopSession call was made while the session was not running
  cleanupCalls       \* cleanupSession calls made per session

VARIABLES
  \* ---- WindowMonitoringSystem, one monitored session
  monActive,          \* the session is in activeSessions
  monStatus,          \* session.status, "none" before startMonitoring
  checkCount,         \* session.checkCount
  errorCount,         \* session.errorCount
  monitorInterval,    \* the interval timer is set (session and sessionData hold it)
  stopFlag,           \* session.stopFlag
  monitorStopFlag,    \* sessionData.monitorStopFlag
  enableAutoCleanup,  \* the config the timer callback was created with
  checking,           \* polls that await checkAdsPowerWindowStatus
  cleaning,           \* polls that await executeComprehensiveCleanup
  \* history variables
  closedDetected,     \* a poll has set WINDOW_CLOSED
  cleanupInvocations, \* executeComprehensiveCleanup calls made for the session
  lastAnswer          \* how the status request of the last resolved poll ended

\* DigitalPersonMemoryManager, the memory of the session the loop answers for
VARIABLES
  memoryManager,    \* the enhancer's memoryManager is set
  memory,           \* the manager's field memory
  written,          \* history: the latest round that recorded answers, the ids
                    \* and answer texts it recorded, and whether the memory
                    \* was written by another caller since
  lookup            \* history: the latest round that read the memory summary,
                    \* the summary it got, `written` as it was then, the
                    \* questions it asked a suggestion for and the answers it
                    \* put into the prompt of act

\* DigitalPersonMemoryManager, one manager whose public operations are called
\* directly
VARIABLES
  store,            \* the manager's field memory
  exported,         \* the value the last exportMemory returned: its memory as
                    \* it was when exported (taken) and as it is now (memory),
                    \* and whether it is the object the manager still holds
  storeLast,        \* history: the last call, the memory before it, what it
                    \* was called with and how it ended
  storeOps          \* history: number of calls made

\* DigitalPersonMemoryManager, the fingerprint and the score of two questions
VARIABLES
  pair,             \* the texts, page URL and options of the one call made
  fingerprints,     \* the ids generateQuestionId returned
  score             \* the score calculateQuestionSimilarity returned

\* QinguoProxyManager, one manager allocating proxies to the sessions
VARIABLES
  leaseTable,       \* the Map allocatedProxies: its entries in insertion order
  sessionCounter,   \* the manager's field sessionCounter
  lastSessionTime,  \* the manager's field lastSessionTime
  proxyClock,       \* Date.now() in seconds
  allocating,       \* the allocateProxy call of each session that awaits its
                    \* tunnel configuration: the proxy session id it generated
  leaseHeld,        \* history: the ProxyInfo the session's last allocateProxy
                    \* returned
  proxyLast         \* history: the last call and its session

\* ContinuousAnsweringEnhancer.performIntelligentNavigation, called on its own
VARIABLES
  navigated         \* the one call made: the navigation options of the page,
                    \* the act it issued and the result it returned

\* WindowMonitoringSystem, the interval timers of one sessionId whose
\* startMonitoring calls are given the same SessionResourceData
VARIABLES
  timersLive,       \* the interval timers set and not cleared, named by the
                    \* number of the startMonitoring call that set them
  sessionsEntry,    \* activeSessions.get(sessionId): the MonitoringSession of
                    \* that startMonitoring call, 0 when there is none
  sessionHolds,     \* the MonitoringSessions whose monitorInterval is set
  sessionStopFlag,  \* the MonitoringSessions whose stopFlag is set
  dataInterval,     \* sessionData.monitorInterval, 0 when undefined
  dataStopFlag,     \* sessionData.monitorStopFlag
  timerStarts,      \* history: startMonitoring calls made
  timerFirings,     \* history: timer callbacks run
  stoppedSince,     \* history: stopMonitoring or the cleanup has run since the
                    \* last startMonitoring
  timerLast         \* history: the last call, and whether it made a status check

\* StagehandSuperIntelligentEngine, the engine that runs the answering loop
VARIABLES
  isPaused,         \* sessionState.isPaused
  roundsAtPause     \* history: roundsStarted when pause() was called

\* UnifiedResourceCleanupManager, one instance cleaning the sessions' resources
VARIABLES
  sessionData,      \* the SessionResourceData of every session
  currentPhase,     \* the manager's field currentPhase
  cleanupResults,   \* the manager's field cleanupResults: phase key -> result
  phaseWriter,      \* history: the session whose cleanup wrote each phase key
  clnPc,            \* where every session's executeComprehensiveCleanup stands
  clnResult,        \* the CleanupResult the session's last call returned
  clnEffects,       \* history: the calls the session's current cleanup has made
  clnFailed,        \* history: the steps of the session's cleanups that failed
  callsMade,        \* history: executeComprehensiveCleanup calls per session
  phasesRun         \* history: the phases the session's current cleanup has run

detVars == <<pageStateHistory, completionCheckCount, config, detPage, detResult>>

loopVars ==
  <<maxContinuousAttempts, loopPc, attempt, pagesProcessed, totalQuestionsAnswered,
    continuousFailures, pageState, completionResult, loopResult,
    roundsStarted, roundsCompleted, roundTrace, absorbed, streakNavOnly, exitCause>>

sessVars ==
  <<sessStatus, sessError, sessResult, execPc, stopPc, allocatedProxies,
    activeBrowsers, browsers, events, stopCalls, stopsOutsideRun, cleanupCalls>>

monVars ==
  <<monActive, monStatus, checkCount, errorCount, monitorInterval, stopFlag,
    monitorStopFlag, enableAutoCleanup, checking, cleaning, closedDetected,
    cleanupInvocations, lastAnswer>>

clnVars ==
  <<sessionData, currentPhase, cleanupResults, phaseWriter, clnPc, clnResult,
    clnEffects, clnFailed, callsMade, phasesRun>>

engVars == <<isPaused, roundsAtPause>>

storeVars == <<store, exported, storeLast, storeOps>>

featVars == <<pair, fingerprints, score>>

navVars == <<navigated>>

timerVars == <<timersLive, sessionsEntry, sessionHolds, sessionStopFlag, dataInterval,
               dataStopFlag, timerStarts, timerFirings, stoppedSince, timerLast>>

proxyVars ==
  <<leaseTable, sessionCounter, lastSessionTime, proxyClock, allocating, leaseHeld,
    proxyLast>>

memVars == <<memoryManager, memory, written, lookup>>

vars ==
  <<detVars, loopVars, sessVars, monVars, clnVars, engVars, memVars, storeVars, featVars,
    proxyVars, navVars, timerVars>>

\* Before the first detection: no page looked at, no result returned.
NoPage ==
  [url |-> <<>>, title |-> <<>>, body |-> <<>>, markers |-> {}, locatorThrows |-> FALSE]

NoResult ==
  [isSuccess |-> FALSE, successType |-> "none", shouldCleanup |-> FALSE, details |-> "none"]

(***************************************************************************)
(* String helpers: String.prototype.toLowerCase and String.prototype       *)
(* .includes on sequences of characters.                                   *)
(***************************************************************************)
UpperCaseLetters ==
  <<"A","B","C","D","E","F","G","H","I","J","K","L","M",
    "N","O","P","Q","R","S","T","U","V","W","X","Y","Z">>

LowerCaseLetters ==
  <<"a","b","c","d","e","f","g","h","i","j","k","l","m",
    "n","o","p","q","r","s","t","u","v","w","x","y","z">>

UpperToLower ==
  [c \in {UpperCaseLetters[i] : i \in 1..Len(UpperCaseLetters)} |->
     LowerCaseLetters[CHOOSE i \in 1..Len(UpperCaseLetters) : UpperCaseLetters[i] = c]]

LowerChar(c) == IF c \in DOMAIN UpperToLower THEN UpperToLower[c] ELSE c

toLowerCase(s) == [i \in 1..Len(s) |-> LowerChar(s[i])]

includes(s, p) ==
  \E i \in 0..(Len(s) - Len(p)) : SubSeq(s, i + 1, i + Len(p)) = p

(***************************************************************************)
(* IntelligentCompletionManager: the fixed signal lists.                   *)
(***************************************************************************)
completionSignals ==
  << <<"U+95EE","U+5377","U+5DF2","U+5B8C","U+6210">>,
     <<"U+8C03","U+67E5","U+7ED3","U+675F">>,
     <<"U+8C03","U+7814","U+5DF2","U+7ED3","U+675F">>,
     <<"U+611F","U+8C22","U+60A8","U+7684","U+53C2","U+4E0E">>,
     <<"s","u","r","v","e","y"," ","c","o","m","p","l","e","t","e","d">>,
     <<"q","u","e","s","t","i","o","n","n","a","i","r","e"," ","f","i","n","i","s","h","e","d">>,
     <<"s","u","r","v","e","y"," ","e","n","d","e","d">>,
     <<"t","h","a","n","k"," ","y","o","u"," ","f","o","r"," ","p","a","r","t","i","c","i","p","a","t","i","n","g">>,
     <<"s","u","b","m","i","s","s","i","o","n"," ","s","u","c","c","e","s","s","f","u","l">> >>

completionUrlPatterns ==
  << <<"t","h","a","n","k","-","y","o","u">>,
     <<"c","o","m","p","l","e","t","i","o","n">>,
     <<"s","u","c","c","e","s","s","-","p","a","g","e">>,
     <<"f","i","n","i","s","h","e","d">>,
     <<"s","u","b","m","i","t","t","e","d">>,
     <<"c","o","m","p","l","e","t","e">>,
     <<"e","n","d","-","s","u","r","v","e","y">> >>

errorKeywords ==
  << <<"U+7CFB","U+7EDF","U+5D29","U+6E83">>,
     <<"s","e","r","v","e","r"," ","e","r","r","o","r">>,
     <<"U+670D","U+52A1","U+5668","U+6545","U+969C">>,
     <<"U+7F51","U+7AD9","U+7EF4","U+62A4","U+4E2D">>,
     <<"s","y","s","t","e","m"," ","e","r","r","o","r">>,
     <<"m","a","i","n","t","e","n","a","n","c","e">>,
     <<"s","e","r","v","i","c","e"," ","u","n","a","v","a","i","l","a","b","l","e">> >>

\* The texts of the 'text="..."' selectors of detectStrictCompletionSignals.
completionSelectors ==
  << <<"U+95EE","U+5377","U+5DF2","U+5B8C","U+6210">>,
     <<"s","u","r","v","e","y"," ","c","o","m","p","l","e","t","e","d">>,
     <<"q","u","e","s","t","i","o","n","n","a","i","r","e"," ","f","i","n","i","s","h","e","d">>,
     <<"t","h","a","n","k"," ","y","o","u">>,
     <<"s","u","b","m","i","s","s","i","o","n"," ","s","u","c","c","e","s","s","f","u","l">> >>

\* signal.toLowerCase() and keyword.toLowerCase(), for each list entry
completionSignalsLower ==
  [i \in 1..Len(completionSignals) |-> toLowerCase(completionSignals[i])]

errorKeywordsLower ==
  [i \in 1..Len(errorKeywords) |-> toLowerCase(errorKeywords[i])]

DefaultMaxHistoryRecords == 10

(***************************************************************************)
(* The pages the detector is run on.  A page is what the browser answers   *)
(* to page.url(), page.title(), locator('body').textContent() and          *)
(* locator(selector).count():                                              *)
(*   url      the URL                                                      *)
(*   title    the title, or Throws when page.title() rejects               *)
(*   body     the body text, or Throws when textContent() rejects          *)
(*   markers  the selector texts whose locator counts at least one element *)
(*   locatorThrows  whether locator(selector).count() rejects              *)
(***************************************************************************)
\* A rejected call; no string of the model equals it.
Throws == <<"throws">>

UrlQuestion == <<"/","q","1">>
UrlThankYou == <<"/","t","h","a","n","k","-","y","o","u">>
UrlThankYouUpper == <<"/","T","H","A","N","K","-","Y","O","U">>
UrlSuccess == <<"/","s","u","c","c","e","s","s">>
UrlIncomplete == <<"/","i","n","c","o","m","p","l","e","t","e">>

TextQuestion == <<"q","?">>
TextSurveyCompleted == <<"S","u","r","v","e","y"," ","C","o","m","p","l","e","t","e","d">>
TextServerError == <<"S","e","r","v","e","r"," ","E","r","r","o","r">>
TextThankYou == <<"t","h","a","n","k"," ","y","o","u">>
TextWenJuan == <<"U+95EE","U+5377","U+5DF2","U+5B8C","U+6210">>
TextErrorAndDone ==
  <<"s","y","s","t","e","m"," ","e","r","r","o","r"," ","s","u","r","v","e","y"," ","e","n","d","e","d">>

TitleSurvey == <<"S","u","r","v","e","y">>

Urls == {UrlQuestion, UrlThankYou, UrlThankYouUpper, UrlSuccess, UrlIncomplete}

Bodies ==
  {TextQuestion, TextSurveyCompleted, TextServerError, TextThankYou,
   TextWenJuan, TextErrorAndDone}

\* The marker elements a page of the model may hold: none, or one of these.
MarkerSets == {{}, {completionSelectors[4]}, {completionSelectors[2]}}

\* count() rejecting is tried on the pages with the "thank you" element only.
Pages ==
  {p \in [url : Urls,
          title : {TitleSurvey, Throws},
          body : Bodies \cup {Throws},
          markers : MarkerSets,
          locatorThrows : BOOLEAN] :
     p.locatorThrows => p.markers = {completionSelectors[4]}}

(***************************************************************************)
(* IntelligentCompletionManager.detectStrictCompletionSignals              *)
(***************************************************************************)
\* Mutant: the loop over completionUrlPatterns starts at the second entry.
UrlHasCompletionPatternSkipsFirst(currentUrl) ==
  LET urlLower == toLowerCase(currentUrl)
  IN  \E i \in 2..Len(completionUrlPatterns) : includes(urlLower, completionUrlPatterns[i])

UrlHasCompletionPattern(currentUrl) ==
  LET urlLower == toLowerCase(currentUrl)
  IN  \E i \in 1..Len(completionUrlPatterns) : includes(urlLower, completionUrlPatterns[i])

TextHasCompletionSignal(bodyText) ==
  \E i \in 1..Len(completionSignals) : includes(bodyText, completionSignalsLower[i])

\* locator(selector).count() > 0; a rejected count() is ignored (continue).
HasCompletionElement(page) ==
  \E i \in 1..Len(completionSelectors) :
     /\ ~page.locatorThrows
     /\ completionSelectors[i] \in page.markers

detectStrictCompletionSignals(currentUrl, bodyText, page) ==
  \/ UrlHasCompletionPattern(currentUrl)
  \/ TextHasCompletionSignal(bodyText)
  \/ HasCompletionElement(page)

(***************************************************************************)
(* IntelligentCompletionManager.detectErrorIndicators                      *)
(***************************************************************************)
detectErrorIndicators(bodyText) ==
  \E i \in 1..Len(errorKeywords) : includes(bodyText, errorKeywordsLower[i])

\* IntelligentCompletionManager.detectQuestionnaireContinuation
detectQuestionnaireContinuation(bodyText) == TRUE

(***************************************************************************)
(* IntelligentCompletionManager.intelligentCompletionDetection: the        *)
(* verdict.  detectionTime and executionTime are left out of the result.   *)
(***************************************************************************)
CompleteResult ==
  [isSuccess |-> TRUE, successType |-> "complete", shouldCleanup |-> TRUE,
   details |-> "explicit end signal detected"]

ContinueResult ==
  [isSuccess |-> FALSE, successType |-> "continue_answering", shouldCleanup |-> FALSE,
   details |-> "continue answering"]

ErrorResult ==
  [isSuccess |-> FALSE, successType |-> "detection_error", shouldCleanup |-> FALSE,
   details |-> "detection exception"]

\* The text the detection works on: '' when textContent() rejects, lowercased.
BodyTextLower(page) ==
  toLowerCase(IF page.body = Throws THEN <<>> ELSE page.body)

\* Mutant: error indicators veto the completion.
DecideContinuesOnError(hasStrictCompletion, hasErrorIndicators, stillInQuestionnaire) ==
  IF hasStrictCompletion /\ ~hasErrorIndicators THEN CompleteResult ELSE ContinueResult

\* Mutant: a page with error indicators ends the questionnaire too.
DecideStopsOnError(hasStrictCompletion, hasErrorIndicators, stillInQuestionnaire) ==
  IF hasStrictCompletion \/ hasErrorIndicators THEN CompleteResult ELSE ContinueResult

\* The if/else on hasStrictCompletion: error indicators and the continuation
\* flag are computed and not used.
Decide(hasStrictCompletion, hasErrorIndicators, stillInQuestionnaire) ==
  IF hasStrictCompletion THEN CompleteResult ELSE ContinueResult

\* Mutant: no exception leaves the try block.
DetectionThrowsNever(page) == FALSE

\* Whether the try block is left by an exception: page.title() rejects.
DetectionThrows(page) == page.title = Throws

intelligentCompletionDetection(page) ==
  IF DetectionThrows(page)
  THEN ErrorResult
  ELSE LET bodyTextLower == BodyTextLower(page)
       IN  Decide(detectStrictCompletionSignals(page.url, bodyTextLower, page),
                  detectErrorIndicators(bodyTextLower),
                  detectQuestionnaireContinuation(bodyTextLower))

(***************************************************************************)
(* IntelligentCompletionManager.recordDetectionHistory                     *)
(***************************************************************************)
slice(s, n) ==
  \* Array.prototype.slice(-n): the last n elements for n > 0; -0 is 0, and
  \* slice(0) is the whole array
  IF n = 0 \/ Len(s) <= n THEN s ELSE SubSeq(s, Len(s) - n + 1, Len(s))

recordDetectionHistory(history, url, title, result, maxHistoryRecords) ==
  LET pushed == Append(history, [url |-> url, title |-> title,
                                 completionResult |-> result])
  IN  IF Len(pushed) > maxHistoryRecords THEN slice(pushed, maxHistoryRecords) ELSE pushed

\* The verdict of every page of the model, computed once.
DetectionOf == [p \in Pages |-> intelligentCompletionDetection(p)]

\* One call of intelligentCompletionDetection on page p: the state it changes.
\* An exception leaves the try block before recordDetectionHistory.
DetectionCall(p) ==
  /\ completionCheckCount' = completionCheckCount + 1
  /\ detPage' = p
  /\ detResult' = DetectionOf[p]
  /\ pageStateHistory' =
       IF DetectionThrows(p)
       THEN pageStateHistory
       ELSE recordDetectionHistory(pageStateHistory, p.url, p.title, DetectionOf[p],
                                   config.maxHistoryRecords)
  /\ UNCHANGED config

DetectorInit ==
  /\ pageStateHistory = <<>>
  /\ completionCheckCount = 0
  /\ config = [maxHistoryRecords |-> DefaultMaxHistoryRecords]
  /\ detPage = NoPage
  /\ detResult = NoResult

(***************************************************************************)
(* SpecDetector: the detector called on arbitrary pages.                   *)
(***************************************************************************)
MaxChecks == 2

Detect ==
  /\ completionCheckCount < MaxChecks
  /\ \E p \in Pages : DetectionCall(p)

(***************************************************************************)
(* DigitalPersonMemoryManager: the memory of one session.  A question id   *)
(* is the MD5 of `${pageUrl}|${normalizedText}`, modelled by the pair of   *)
(* the URL and the normalized text.                                        *)
(***************************************************************************)
WordChars ==
  {UpperCaseLetters[i] : i \in 1..Len(UpperCaseLetters)}
    \cup {LowerCaseLetters[i] : i \in 1..Len(LowerCaseLetters)}
    \cup {"0","1","2","3","4","5","6","7","8","9","_"}

\* The white space /\s/ matches, of the characters of the texts
IsSpace(c) == c \in {" ", "\t", "\n"}

RECURSIVE CollapseSpaces(_)
\* text.replace(/\s+/g, ' '): a run of white space becomes one blank
CollapseSpaces(s) ==
  IF s = <<>> THEN s
  ELSE IF ~IsSpace(s[1]) THEN <<s[1]>> \o CollapseSpaces(Tail(s))
  ELSE IF Len(s) > 1 /\ IsSpace(s[2]) THEN CollapseSpaces(Tail(s))
  ELSE <<" ">> \o CollapseSpaces(Tail(s))

RECURSIVE trim(_)
trim(s) ==
  IF s = <<>> THEN s
  ELSE IF IsSpace(s[1]) THEN trim(Tail(s))
  ELSE IF IsSpace(s[Len(s)]) THEN trim(SubSeq(s, 1, Len(s) - 1))
  ELSE s

IsWordOrSpace(c) == c \in WordChars \/ IsSpace(c)

\* normalizeQuestionText without toLowerCase
normalizeQuestionTextKeepsCase(text) ==
  SelectSeq(trim(CollapseSpaces(text)), IsWordOrSpace)

\* normalizeQuestionText: white space collapsed and trimmed, every character
\* other than [A-Za-z0-9_] and white space removed, lower case
normalizeQuestionText(text) ==
  toLowerCase(SelectSeq(trim(CollapseSpaces(text)), IsWordOrSpace))

generateQuestionId(questionText, pageUrl) == <<pageUrl, normalizeQuestionText(questionText)>>

\* The memory the constructor creates
EmptyMemory ==
  [questions |-> <<>>, questionOrder |-> <<>>, currentPosition |-> 0,
   totalQuestions |-> 0, completedQuestions |-> 0]

QuestionRecord(questionId, questionText, options, answer, answerText, pageUrl) ==
  [questionId |-> questionId, questionText |-> questionText, options |-> options,
   answer |-> answer, answerText |-> answerText, pageUrl |-> pageUrl]

\* recordQuestionAnswer, without appending a new question to questionOrder
recordQuestionAnswerSkipsOrder(mem, questionText, options, answer, answerText, pageUrl) ==
  LET questionId == generateQuestionId(questionText, pageUrl)
      questionRecord == QuestionRecord(questionId, questionText, options, answer,
                                       answerText, pageUrl)
  IN  [mem EXCEPT !.questions = (questionId :> questionRecord) @@ @]

\* recordQuestionAnswer, counting a known question as completed once more
recordQuestionAnswerCountsAgain(mem, questionText, options, answer, answerText, pageUrl) ==
  LET questionId == generateQuestionId(questionText, pageUrl)
      questionRecord == QuestionRecord(questionId, questionText, options, answer,
                                       answerText, pageUrl)
  IN  IF questionId \notin DOMAIN mem.questions
      THEN [mem EXCEPT
              !.questions = (questionId :> questionRecord) @@ @,
              !.questionOrder = Append(@, questionId),
              !.totalQuestions = Cardinality(DOMAIN mem.questions \cup {questionId}),
              !.completedQuestions = @ + 1]
      ELSE [mem EXCEPT !.questions = (questionId :> questionRecord) @@ @,
                       !.completedQuestions = @ + 1]

\* recordQuestionAnswer: a new question is added to questions and to
\* questionOrder and counted; a known one has its record replaced
recordQuestionAnswer(mem, questionText, options, answer, answerText, pageUrl) ==
  LET questionId == generateQuestionId(questionText, pageUrl)
      questionRecord == QuestionRecord(questionId, questionText, options, answer,
                                       answerText, pageUrl)
  IN  IF questionId \notin DOMAIN mem.questions
      THEN [mem EXCEPT
              !.questions = (questionId :> questionRecord) @@ @,
              !.questionOrder = Append(@, questionId),
              !.totalQuestions = Cardinality(DOMAIN mem.questions \cup {questionId}),
              !.completedQuestions = @ + 1]
      ELSE [mem EXCEPT !.questions = (questionId :> questionRecord) @@ @]

advancePosition(mem) == [mem EXCEPT !.currentPosition = @ + 1]

\* getMemorySummary().questions: one entry per id of questionOrder
getMemorySummary(mem) ==
  [index \in 1..Len(mem.questionOrder) |->
     LET questionId == mem.questionOrder[index]
     IN  IF questionId \in DOMAIN mem.questions
         THEN [position |-> index, questionId |-> questionId,
               questionPreview |-> mem.questions[questionId].questionText,
               answerText |-> mem.questions[questionId].answerText]
         ELSE [position |-> index, questionId |-> questionId,
               questionPreview |-> <<"U+672A","U+627E","U+5230","U+8BB0","U+5F55">>,
               answerText |-> <<"U+672A","U+77E5">>]]

RECURSIVE SplitFrom(_, _)
\* The pieces of s between blanks; word is the piece being read
SplitFrom(s, word) ==
  IF s = <<>> THEN <<word>>
  ELSE IF s[1] = " " THEN <<word>> \o SplitFrom(Tail(s), <<>>)
  ELSE SplitFrom(Tail(s), Append(word, s[1]))

\* String.prototype.split(' ')
split(s) == SplitFrom(s, <<>>)

\* new Set(array)
SetOf(array) == {array[i] : i \in 1..Len(array)}

\* extractQuestionFeatures; optionKeywords, which no score reads, is left out
extractQuestionFeatures(questionText, options) ==
  LET normalizedText == normalizeQuestionText(questionText)
  IN  [normalizedText |-> normalizedText,
       normalizedOptions |-> [i \in 1..Len(options) |-> normalizeQuestionText(options[i])],
       keywords |-> {word \in SetOf(split(normalizedText)) : Len(word) > 2},
       textLength |-> Len(normalizedText),
       optionCount |-> Len(options)]

\* A score is a fraction, kept exact: num / den
Ratio(num, den) == [num |-> num, den |-> den]

Greater(r, s) == r.num * s.den > s.num * r.den

Min3(a, b, c) ==
  IF a <= b /\ a <= c THEN a ELSE IF b <= c THEN b ELSE c

RECURSIVE MatrixRow(_, _, _, _)
\* One row of the edit distance matrix: row holds matrix[i][0..j-1], previous
\* is matrix[i-1], c is str1[i-1]
MatrixRow(previous, row, c, str2) ==
  IF Len(row) = Len(previous) THEN row
  ELSE LET j == Len(row)
           cost == IF c = str2[j] THEN 0 ELSE 1
       IN  MatrixRow(previous,
                     Append(row, Min3(previous[j + 1] + 1, row[j] + 1, previous[j] + cost)),
                     c, str2)

RECURSIVE LastRow(_, _, _, _)
\* matrix[len1], given matrix[i-1]
LastRow(previous, i, str1, str2) ==
  IF i > Len(str1) THEN previous
  ELSE LastRow(MatrixRow(previous, <<i>>, str1[i], str2), i + 1, str1, str2)

\* calculateStringSimilarity: 1 less the edit distance over the longer length
calculateStringSimilarity(str1, str2) ==
  LET len1 == Len(str1)
      len2 == Len(str2)
      maxLen == IF len1 >= len2 THEN len1 ELSE len2
  IN  IF len1 = 0 THEN (IF len2 = 0 THEN Ratio(1, 1) ELSE Ratio(0, 1))
      ELSE IF len2 = 0 THEN Ratio(0, 1)
      ELSE Ratio(maxLen - LastRow([j \in 1..(len2 + 1) |-> j - 1], 1, str1, str2)[len2 + 1],
                 maxLen)

\* |intersection| / |union|, 0 when the union is empty
Overlap(set1, set2) ==
  IF set1 \cup set2 = {} THEN Ratio(0, 1)
  ELSE Ratio(Cardinality(set1 \cap set2), Cardinality(set1 \cup set2))

\* text * 0.4 + keywords * 0.3 + options * 0.2 + option count * 0.1
totalSimilarity(textSimilarity, keywordSimilarity, optionSimilarity, optionCountSimilarity) ==
  Ratio(4 * textSimilarity.num * keywordSimilarity.den
            * optionSimilarity.den * optionCountSimilarity.den
          + 3 * keywordSimilarity.num * textSimilarity.den
              * optionSimilarity.den * optionCountSimilarity.den
          + 2 * optionSimilarity.num * textSimilarity.den
              * keywordSimilarity.den * optionCountSimilarity.den
          + optionCountSimilarity.num * textSimilarity.den
              * keywordSimilarity.den * optionSimilarity.den,
        10 * textSimilarity.den * keywordSimilarity.den
           * optionSimilarity.den * optionCountSimilarity.den)

\* calculateQuestionSimilarity: the weighted sum of the four scores
calculateQuestionSimilarity(features1, features2) ==
  totalSimilarity(
    calculateStringSimilarity(features1.normalizedText, features2.normalizedText),
    Overlap(features1.keywords, features2.keywords),
    Overlap(SetOf(features1.normalizedOptions), SetOf(features2.normalizedOptions)),
    IF features1.optionCount = features2.optionCount THEN Ratio(1, 1) ELSE Ratio(1, 2))

\* The default of the similarityThreshold parameter, 0.8
DefaultSimilarityThreshold == Ratio(8, 10)

\* What a lookup that finds nothing returns
Null == [null |-> TRUE]

\* The order Object.values(questions) visits the records in: the order the
\* ids were first written, which is questionOrder for a memory the record
\* calls built; ids questionOrder lacks come after
ValuesOrder(mem) ==
  LET listed == IF "questionOrder" \in DOMAIN mem
                THEN SelectSeq(mem.questionOrder, LAMBDA id : id \in DOMAIN mem.questions)
                ELSE <<>>
      others == DOMAIN mem.questions \ SetOf(listed)
      tail == CHOOSE seq \in [1..Cardinality(others) -> others] : SetOf(seq) = others
  IN  listed \o tail

\* The body of the for loop without the comparison with the best so far
VisitAnyAboveThreshold(questionRecord, similarity, similarityThreshold, best) ==
  IF Greater(similarity, similarityThreshold)
  THEN [bestMatch |-> questionRecord, bestSimilarity |-> similarity]
  ELSE best

\* The body of the for loop of findSimilarQuestion: a record scoring above
\* the threshold and above the best so far becomes the best
Visit(questionRecord, similarity, similarityThreshold, best) ==
  IF Greater(similarity, similarityThreshold) /\ Greater(similarity, best.bestSimilarity)
  THEN [bestMatch |-> questionRecord, bestSimilarity |-> similarity]
  ELSE best

RECURSIVE BestMatch(_, _, _, _, _, _)
\* The for loop of findSimilarQuestion over the ids from position i on
BestMatch(mem, order, i, currentFeatures, similarityThreshold, best) ==
  IF i > Len(order) THEN best.bestMatch
  ELSE BestMatch(mem, order, i + 1, currentFeatures, similarityThreshold,
                 Visit(mem.questions[order[i]],
                       calculateQuestionSimilarity(
                         currentFeatures,
                         extractQuestionFeatures(mem.questions[order[i]].questionText,
                                                 mem.questions[order[i]].options)),
                       similarityThreshold, best))

\* findSimilarQuestion, returning the first record whatever its score
findSimilarQuestionAnyScore(mem, questionText, options, similarityThreshold) ==
  IF ValuesOrder(mem) = <<>> THEN Null ELSE mem.questions[ValuesOrder(mem)[1]]

\* findSimilarQuestion: the best record scoring above the threshold, or null
findSimilarQuestion(mem, questionText, options, similarityThreshold) ==
  BestMatch(mem, ValuesOrder(mem), 1, extractQuestionFeatures(questionText, options),
            similarityThreshold, [bestMatch |-> Null, bestSimilarity |-> Ratio(0, 1)])

\* Array.prototype.indexOf, counting from 0; -1 when absent
indexOf(array, x) ==
  IF x \in SetOf(array) THEN (CHOOSE i \in 1..Len(array) :
                                /\ array[i] = x
                                /\ \A k \in 1..(i - 1) : array[k] # x) - 1
  ELSE -1

\* getConsistentAnswerSuggestion; similarityReason names questionIndex + 1
getConsistentAnswerSuggestion(mem, questionText, options) ==
  LET similarQuestion == findSimilarQuestion(mem, questionText, options,
                                             DefaultSimilarityThreshold)
  IN  IF similarQuestion # Null
      THEN [suggestedAnswer |-> similarQuestion.answer,
            suggestedAnswerText |-> similarQuestion.answerText,
            referenceQuestionId |-> similarQuestion.questionId,
            referenceQuestionText |-> similarQuestion.questionText,
            questionIndex |-> indexOf(mem.questionOrder, similarQuestion.questionId)]
      ELSE Null

\* getProgressInfo; completionRate is in percent, elapsedTime is left out
getProgressInfo(mem) ==
  [currentPosition |-> mem.currentPosition,
   totalQuestions |-> mem.totalQuestions,
   completedQuestions |-> mem.completedQuestions,
   completionRate |-> IF mem.totalQuestions > 0
                      THEN Ratio(mem.completedQuestions * 100, mem.totalQuestions)
                      ELSE Ratio(0, 1)]

\* The texts answerQuestionsIntelligently records; counts stay below 10
Digit(n) == <<"0","1","2","3","4","5","6","7","8","9">>[n + 1]

\* `页面${questionCount}题目${i + 1}` for the question at position number
QuestionTextOf(questionCount, number) ==
  <<"U+9875","U+9762", Digit(questionCount), "U+9898","U+76EE", Digit(number)>>

\* `智能作答第${i + 1}题`
AnswerTextOf(number) ==
  <<"U+667A","U+80FD","U+4F5C","U+7B54","U+7B2C", Digit(number), "U+9898">>

BackupQuestionText == <<"U+5907","U+7528","U+4F5C","U+7B54","U+9898","U+76EE">>

BackupAnswerText == <<"U+5907","U+7528","U+65B9","U+6848","U+4F5C","U+7B54">>

RECURSIVE RecordPage(_, _, _, _)
\* The for loop of answerQuestionsIntelligently: one record per question of
\* the page, from position number on
RecordPage(mem, questionCount, number, currentUrl) ==
  IF number > questionCount THEN mem
  ELSE RecordPage(recordQuestionAnswer(mem, QuestionTextOf(questionCount, number),
                                       <<>>, "answered", AnswerTextOf(number), currentUrl),
                  questionCount, number + 1, currentUrl)

\* What page.url() answers while the loop records
NoUrlRead == <<"no url read">>

UrlReads == {UrlQuestion, UrlSuccess, Throws}

NoWrite == [round |-> 0, ids |-> {}, answers |-> <<>>, disturbed |-> FALSE]

MemoryInit ==
  /\ memoryManager = FALSE
  /\ memory = EmptyMemory
  /\ written = NoWrite
  /\ lookup = [round |-> 0, summary |-> <<>>, written |-> NoWrite,
               suggestions |-> <<>>, recentAnswers |-> <<>>]

\* ContinuousAnsweringEnhancer.setMemoryManager
setMemoryManager ==
  /\ loopPc = "idle"
  /\ ~memoryManager
  /\ memoryManager' = TRUE
  /\ UNCHANGED <<memory, written, lookup>>
  /\ UNCHANGED <<detVars, loopVars, sessVars, monVars, clnVars, engVars, storeVars, featVars, proxyVars, navVars, timerVars>>

\* DigitalPersonMemoryManager.cleanupMemory, as phase 3 of the cleanup and the
\* engine's own cleanup call it on the session's memory
cleanupMemory ==
  /\ memoryManager
  /\ memory.questionOrder # <<>>
  /\ memory' = [memory EXCEPT !.questions = <<>>, !.totalQuestions = 0,
                              !.completedQuestions = 0, !.currentPosition = 0,
                              !.questionOrder = <<>>]
  /\ written' = [written EXCEPT !.disturbed = TRUE]
  /\ UNCHANGED <<memoryManager, lookup>>
  /\ UNCHANGED <<detVars, loopVars, sessVars, monVars, clnVars, engVars, storeVars, featVars, proxyVars, navVars, timerVars>>

(***************************************************************************)
(* DigitalPersonMemoryManager, its public operations called directly on    *)
(* one manager: recordQuestionAnswer, advancePosition, cleanupMemory,      *)
(* exportMemory, importMemory, findSimilarQuestion,                        *)
(* getConsistentAnswerSuggestion and getProgressInfo.  A value is held by  *)
(* reference: exportMemory hands out the manager's memory object itself,   *)
(* and importMemory makes the object it is given the manager's memory.     *)
(***************************************************************************)
TextLikeCoffee ==
  <<"D","o"," ","y","o","u"," ","l","i","k","e"," ","c","o","f","f","e","e","?">>

\* The same question in other letter case and with other white space
TextLikeCoffeeLoud ==
  <<" ","D","O"," "," ","Y","O","U","\t","l","i","k","e"," ","C","o","f","f","e","e","?">>

TextEnjoyCoffee ==
  <<"D","o"," ","y","o","u"," ","e","n","j","o","y"," ","c","o","f","f","e","e","?">>

TextYes == <<"Y","e","s">>

TextNo == <<"N","o">>

OptionsYesNo == <<TextYes, TextNo>>

TextTeaNow == <<"T","e","a"," ","n","o","w","?">>

\* The same question in other letter case and with other white space
TextTeaNowLoud == <<" ","T","E","A","\t"," ","n","o","w">>

TextTeaNot == <<"T","e","a"," ","n","o","t","?">>

Question(questionText, options, pageUrl) ==
  [questionText |-> questionText, options |-> options, pageUrl |-> pageUrl]

\* The questions the operations are called with
StoreQuestions ==
  {Question(TextTeaNow, OptionsYesNo, UrlQuestion),
   Question(TextTeaNowLoud, OptionsYesNo, UrlQuestion),
   Question(TextTeaNot, OptionsYesNo, UrlQuestion),
   Question(TextTeaNow, OptionsYesNo, UrlSuccess),
   Question(TextTeaNow, <<>>, UrlSuccess)}

CoffeeQuestions ==
  {Question(TextLikeCoffee, OptionsYesNo, UrlQuestion),
   Question(TextLikeCoffeeLoud, OptionsYesNo, UrlQuestion),
   Question(TextEnjoyCoffee, OptionsYesNo, UrlQuestion),
   Question(TextLikeCoffee, <<>>, UrlSuccess)}

StoreAnswers == {"Yes", "No"}

StoreUrls == {UrlQuestion, UrlSuccess}

answerTextOf(answer) == IF answer = "Yes" THEN TextYes ELSE TextNo

Thresholds == {DefaultSimilarityThreshold, Ratio(7, 10)}

MaxStoreOps == 3

\* this.memory after an import of a value with no memory
Undefined == [undefined |-> TRUE]

Has(object, field) == field \in DOMAIN object

Returns(value) == [threw |-> FALSE, value |-> value]

Threw == [threw |-> TRUE, value |-> Null]

NoExport == [made |-> FALSE, taken |-> Undefined, memory |-> Undefined, shared |-> FALSE]

\* The values importMemory is called with, besides an exported one: null, a
\* value with no memory, a memory with no questions, one with no
\* questionOrder, one whose questionOrder and counters disagree with its
\* questions, and the memory of another run
ImportedRecord ==
  QuestionRecord(generateQuestionId(TextTeaNot, UrlQuestion), TextTeaNot,
                 OptionsYesNo, "No", TextNo, UrlQuestion)

ImportNoMemory == [questionnaireUrl |-> UrlQuestion]

ImportNoQuestions ==
  [memory |-> [questionOrder |-> <<>>, currentPosition |-> 0,
               totalQuestions |-> 0, completedQuestions |-> 0]]

ImportNoOrder ==
  [memory |-> [questions |-> <<>>, currentPosition |-> 0,
               totalQuestions |-> 0, completedQuestions |-> 0]]

ImportWrongCounters ==
  [memory |-> [questions |-> (ImportedRecord.questionId :> ImportedRecord),
               questionOrder |-> <<ImportedRecord.questionId, ImportedRecord.questionId>>,
               currentPosition |-> 0, totalQuestions |-> 1, completedQuestions |-> 3]]

ImportSound ==
  [memory |-> recordQuestionAnswer(EmptyMemory, TextTeaNot, OptionsYesNo, "No",
                                   TextNo, UrlQuestion)]

CorruptValues == {Null, ImportNoMemory, ImportNoQuestions, ImportNoOrder, ImportWrongCounters}

ImportValues == CorruptValues \cup {ImportSound}

StoreInit ==
  /\ store = EmptyMemory
  /\ exported = NoExport
  /\ storeLast = [op |-> "new", before |-> EmptyMemory, input |-> Null,
                  result |-> Returns(Null)]
  /\ storeOps = 0

\* A write to the manager's memory object shows in the exported value that
\* holds the same object
Shared(mem) ==
  IF exported.made /\ exported.shared THEN [exported EXCEPT !.memory = mem] ELSE exported

\* recordQuestionAnswer on any memory: reading questions of a memory that has
\* none throws; a new id is stored before the push to a missing
\* questionOrder throws
RecordOutcome(mem, questionText, options, answer, answerText, pageUrl) ==
  LET questionId == generateQuestionId(questionText, pageUrl)
      questionRecord == QuestionRecord(questionId, questionText, options, answer,
                                       answerText, pageUrl)
  IN  IF ~Has(mem, "questions") THEN [memory |-> mem, result |-> Threw]
      ELSE IF questionId \notin DOMAIN mem.questions /\ ~Has(mem, "questionOrder")
      THEN [memory |-> [mem EXCEPT !.questions = (questionId :> questionRecord) @@ @],
            result |-> Threw]
      ELSE [memory |-> recordQuestionAnswer(mem, questionText, options, answer,
                                            answerText, pageUrl),
            result |-> Returns(questionId)]

StoreRecord(questions) ==
  /\ storeOps < MaxStoreOps
  /\ \E question \in questions, answer \in StoreAnswers :
       LET outcome == RecordOutcome(store, question.questionText, question.options,
                                    answer, answerTextOf(answer), question.pageUrl)
       IN  /\ store' = outcome.memory
           /\ exported' = Shared(outcome.memory)
           /\ storeLast' = [op |-> "recordQuestionAnswer", before |-> store,
                            input |-> [question |-> question, answer |-> answer],
                            result |-> outcome.result]
  /\ storeOps' = storeOps + 1
  /\ UNCHANGED <<detVars, loopVars, sessVars, monVars, clnVars, engVars, memVars, featVars, proxyVars, navVars, timerVars>>

\* advancePosition throws on a memory that is undefined
StoreAdvance ==
  /\ storeOps < MaxStoreOps
  /\ LET mem == IF store = Undefined THEN store ELSE advancePosition(store)
     IN  /\ store' = mem
         /\ exported' = Shared(mem)
  /\ storeLast' = [op |-> "advancePosition", before |-> store, input |-> Null,
                   result |-> IF store = Undefined THEN Threw ELSE Returns(Null)]
  /\ storeOps' = storeOps + 1
  /\ UNCHANGED <<detVars, loopVars, sessVars, monVars, clnVars, engVars, memVars, featVars, proxyVars, navVars, timerVars>>

\* cleanupMemory: every field of a memory there is gets its first value
cleanedMemory(mem) == IF mem = Undefined THEN mem ELSE EmptyMemory

StoreCleanup ==
  /\ storeOps < MaxStoreOps
  /\ store' = cleanedMemory(store)
  /\ exported' = Shared(cleanedMemory(store))
  /\ storeLast' = [op |-> "cleanupMemory", before |-> store, input |-> Null,
                   result |-> Returns(Null)]
  /\ storeOps' = storeOps + 1
  /\ UNCHANGED <<detVars, loopVars, sessVars, monVars, clnVars, engVars, memVars, featVars, proxyVars, navVars, timerVars>>

\* exportMemory: { memory: this.memory, ... }, the memory object itself
exportMemory(mem) == [memory |-> mem]

StoreExport ==
  /\ storeOps < MaxStoreOps
  /\ exported' = [made |-> TRUE, taken |-> store, memory |-> store, shared |-> TRUE]
  /\ storeLast' = [op |-> "exportMemory", before |-> store, input |-> Null,
                   result |-> Returns(exportMemory(store))]
  /\ storeOps' = storeOps + 1
  /\ UNCHANGED store
  /\ UNCHANGED <<detVars, loopVars, sessVars, monVars, clnVars, engVars, memVars, featVars, proxyVars, navVars, timerVars>>

\* importMemory, with its reset of currentPosition added
importMemoryRewinds(mem, memoryData) ==
  IF memoryData = Null THEN mem
  ELSE IF ~Has(memoryData, "memory") THEN Undefined
  ELSE IF Has(memoryData.memory, "currentPosition")
  THEN [memoryData.memory EXCEPT !.currentPosition = 0]
  ELSE memoryData.memory

\* importMemory: this.memory = memoryData.memory.  Reading memory of null
\* throws before the assignment; the log line after it throws when the new
\* memory has no questions; the catch swallows both
importMemory(mem, memoryData) ==
  IF memoryData = Null THEN mem
  ELSE IF ~Has(memoryData, "memory") THEN Undefined
  ELSE memoryData.memory

\* What importMemory may be given: a value of the caller's, or the value the
\* last exportMemory returned, as it is now
ImportInputs ==
  {[from |-> "caller", data |-> data] : data \in ImportValues}
    \cup (IF exported.made THEN {[from |-> "export", data |-> exportMemory(exported.memory)]}
          ELSE {})

StoreImport ==
  /\ storeOps < MaxStoreOps
  /\ \E input \in ImportInputs :
       /\ store' = importMemory(store, input.data)
       /\ exported' = IF input.data = Null THEN exported
                      ELSE [exported EXCEPT !.shared = (input.from = "export")]
       /\ storeLast' = [op |-> "importMemory", before |-> store, input |-> input,
                        result |-> Returns(Null)]
  /\ storeOps' = storeOps + 1
  /\ UNCHANGED <<detVars, loopVars, sessVars, monVars, clnVars, engVars, memVars, featVars, proxyVars, navVars, timerVars>>

\* findSimilarQuestion throws on a memory without questions
StoreFind(questions) ==
  /\ storeOps < MaxStoreOps
  /\ \E question \in questions, similarityThreshold \in Thresholds :
       storeLast' = [op |-> "findSimilarQuestion", before |-> store,
                     input |-> [question |-> question,
                                similarityThreshold |-> similarityThreshold],
                     result |-> IF ~Has(store, "questions") THEN Threw
                                ELSE Returns(findSimilarQuestion(
                                               store, question.questionText,
                                               question.options, similarityThreshold))]
  /\ storeOps' = storeOps + 1
  /\ UNCHANGED <<store, exported>>
  /\ UNCHANGED <<detVars, loopVars, sessVars, monVars, clnVars, engVars, memVars, featVars, proxyVars, navVars, timerVars>>

\* getConsistentAnswerSuggestion throws where findSimilarQuestion does, and
\* on a match in a memory without questionOrder
StoreSuggest(questions) ==
  /\ storeOps < MaxStoreOps
  /\ \E question \in questions :
       storeLast' = [op |-> "getConsistentAnswerSuggestion", before |-> store,
                     input |-> [question |-> question,
                                similarityThreshold |-> DefaultSimilarityThreshold],
                     result |-> IF ~Has(store, "questions") THEN Threw
                                ELSE IF ~Has(store, "questionOrder")
                                        /\ findSimilarQuestion(
                                              store, question.questionText, question.options,
                                              DefaultSimilarityThreshold) # Null
                                THEN Threw
                                ELSE Returns(getConsistentAnswerSuggestion(
                                               store, question.questionText,
                                               question.options))]
  /\ storeOps' = storeOps + 1
  /\ UNCHANGED <<store, exported>>
  /\ UNCHANGED <<detVars, loopVars, sessVars, monVars, clnVars, engVars, memVars, featVars, proxyVars, navVars, timerVars>>

\* getProgressInfo throws on a memory that is undefined
StoreProgress ==
  /\ storeOps < MaxStoreOps
  /\ storeLast' = [op |-> "getProgressInfo", before |-> store, input |-> Null,
                   result |-> IF store = Undefined THEN Threw
                              ELSE Returns(getProgressInfo(store))]
  /\ storeOps' = storeOps + 1
  /\ UNCHANGED <<store, exported>>
  /\ UNCHANGED <<detVars, loopVars, sessVars, monVars, clnVars, engVars, memVars, featVars, proxyVars, navVars, timerVars>>

(***************************************************************************)
(* DigitalPersonMemoryManager.generateQuestionId and                       *)
(* calculateQuestionSimilarity, called on the questions of `pair`.         *)
(***************************************************************************)
MaxTextLen == 4

FeatureAlphabet == {"a", "A", " ", "\t", "?"}

TextsUpTo(n) == UNION {[1..len -> FeatureAlphabet] : len \in 0..n}

FeatureOptions == {<<>>, OptionsYesNo}

NotComputed == [computed |-> FALSE]

FeaturesInit ==
  /\ pair = NotComputed
  /\ fingerprints = NotComputed
  /\ score = NotComputed

\* generateQuestionId for two texts on a page, and once more for the first
GenerateIds ==
  /\ pair = NotComputed
  /\ \E text1 \in TextsUpTo(MaxTextLen), text2 \in TextsUpTo(MaxTextLen - 1),
        pageUrl \in StoreUrls :
       /\ pair' = [computed |-> TRUE, text1 |-> text1, text2 |-> text2,
                   pageUrl |-> pageUrl]
       /\ fingerprints' = [computed |-> TRUE,
                           id1 |-> generateQuestionId(text1, pageUrl),
                           again1 |-> generateQuestionId(text1, pageUrl),
                           id2 |-> generateQuestionId(text2, pageUrl)]
  /\ UNCHANGED score
  /\ UNCHANGED <<detVars, loopVars, sessVars, monVars, clnVars, engVars, memVars, storeVars, proxyVars, navVars, timerVars>>

\* calculateQuestionSimilarity of a question and a copy of it
ScoreQuestions ==
  /\ pair = NotComputed
  /\ \E questionText \in TextsUpTo(MaxTextLen), options \in FeatureOptions :
       /\ pair' = [computed |-> TRUE, questionText |-> questionText, options |-> options]
       /\ score' = [computed |-> TRUE,
                    copy |-> calculateQuestionSimilarity(
                               extractQuestionFeatures(questionText, options),
                               extractQuestionFeatures(questionText, options))]
  /\ UNCHANGED fingerprints
  /\ UNCHANGED <<detVars, loopVars, sessVars, monVars, clnVars, engVars, memVars, storeVars, proxyVars, navVars, timerVars>>

(***************************************************************************)
(* ContinuousAnsweringEnhancer.executeContinuousAnswering.                 *)
(* The call is cut at its awaits: page analysis, completion detection,     *)
(* answering, navigation, stability wait, inter-round sleep.  The memory   *)
(* manager is null, the constructor's value, until setMemoryManager.       *)
(***************************************************************************)
DefaultMaxContinuousAttempts == 200

maxContinuousFailures == 8

\* The values setMaxContinuousAttempts is called with, and the largest round
\* budget a modelled call runs with.
MaxAttempts == 9

AttemptChoices == {0, 1, MaxAttempts}

NoPageState ==
  [hasQuestions |-> FALSE, questionCount |-> 0, hasUnAnsweredQuestions |-> FALSE,
   navigationOptions |-> [hasNextButton |-> FALSE, hasSubmitButton |-> FALSE,
                          hasContinueButton |-> FALSE]]

\* performDeepPageAnalysis: the catch's replacement analysis
FallbackPageState ==
  [hasQuestions |-> TRUE, questionCount |-> 1, hasUnAnsweredQuestions |-> TRUE,
   navigationOptions |-> [hasNextButton |-> FALSE, hasSubmitButton |-> FALSE,
                          hasContinueButton |-> FALSE]]

\* What page.extract may answer (PageStateSchema): a page of unanswered
\* questions with a submit button, a page of answered questions with a next
\* button, a page without questions and without buttons.
PageStates ==
  {[hasQuestions |-> TRUE, questionCount |-> 1,
    hasUnAnsweredQuestions |-> TRUE,
    navigationOptions |-> [hasNextButton |-> FALSE, hasSubmitButton |-> TRUE,
                           hasContinueButton |-> FALSE]],
   [hasQuestions |-> TRUE, questionCount |-> 1,
    hasUnAnsweredQuestions |-> FALSE,
    navigationOptions |-> [hasNextButton |-> TRUE, hasSubmitButton |-> FALSE,
                           hasContinueButton |-> FALSE]],
   NoPageState}

\* The pages the loop's detector looks at: a question page, a thank-you page,
\* and a thank-you page whose title cannot be read.
LoopPages ==
  {p \in Pages : /\ p.body = TextQuestion
                 /\ p.markers = {}
                 /\ \/ p.url = UrlQuestion /\ p.title = TitleSurvey
                    \/ p.url = UrlThankYou}

NoLoopResult ==
  [totalPagesProcessed |-> 0, totalQuestionsAnswered |-> 0, finalStatus |-> "none",
   completionReason |-> [text |-> "none", args |-> <<>>]]

\* completionReason of the return after the loop: the pages and questions counted
ProcessedReason(pages, questions) ==
  [text |-> "processed pages, answered questions", args |-> <<pages, questions>>]

\* completionReason of the return inside the loop: completionResult.details
DetailsReason(result) == [text |-> result.details, args |-> <<>>]

\* Mutant: the status of the return after the loop does not look at the pages.
FinalStatusAlwaysFailed(pages) == "failed"

FinalStatus(pages) == IF pages > 0 THEN "partial_completed" ELSE "failed"

\* The return after the loop (lines 189-195)
FinalResult(pages, questions) ==
  [totalPagesProcessed |-> pages, totalQuestionsAnswered |-> questions,
   finalStatus |-> FinalStatus(pages),
   completionReason |-> ProcessedReason(pages, questions)]

\* Mutant: the return inside the loop reports a partial completion.
CompletedResultAsPartial(pages, questions, result) ==
  [totalPagesProcessed |-> pages, totalQuestionsAnswered |-> questions,
   finalStatus |-> "partial_completed",
   completionReason |-> DetailsReason(result)]

\* The return inside the loop (lines 126-131)
CompletedResult(pages, questions, result) ==
  [totalPagesProcessed |-> pages, totalQuestionsAnswered |-> questions,
   finalStatus |-> "completed",
   completionReason |-> DetailsReason(result)]

\* Mutant: the for loop runs one round more.
LoopConditionOffByOne(a, max) == a <= max + 1

\* attempt <= this.maxContinuousAttempts
LoopCondition(a, max) == a <= max

\* Mutant: the budget test lets the counter pass the budget.
BudgetExhaustedLate(failures) == failures > maxContinuousFailures

\* continuousFailures >= this.maxContinuousFailures
BudgetExhausted(failures) == failures >= maxContinuousFailures

\* Mutant: the exit test asks for a verdict that needs no cleanup.
ShouldExitWithoutCleanup(result) == result.isSuccess /\ ~result.shouldCleanup

\* completionResult.isSuccess && completionResult.shouldCleanup
ShouldExit(result) == result.isSuccess /\ result.shouldCleanup

LoopInit ==
  /\ maxContinuousAttempts = DefaultMaxContinuousAttempts
  /\ loopPc = "idle"
  /\ attempt = 0
  /\ pagesProcessed = 0
  /\ totalQuestionsAnswered = 0
  /\ continuousFailures = 0
  /\ pageState = NoPageState
  /\ completionResult = NoResult
  /\ loopResult = NoLoopResult
  /\ roundsStarted = 0
  /\ roundsCompleted = 0
  /\ roundTrace = <<>>
  /\ absorbed = FALSE
  /\ streakNavOnly = TRUE
  /\ exitCause = "none"

\* ContinuousAnsweringEnhancer.setMaxContinuousAttempts, before the call
setMaxContinuousAttempts(attempts) ==
  /\ loopPc = "idle"
  /\ maxContinuousAttempts' = attempts
  /\ UNCHANGED <<loopPc, attempt, pagesProcessed, totalQuestionsAnswered,
                 continuousFailures, pageState, completionResult, loopResult,
                 roundsStarted, roundsCompleted, roundTrace, absorbed,
                 streakNavOnly, exitCause>>
  /\ UNCHANGED <<detVars, sessVars, monVars, clnVars, engVars, storeVars, featVars, proxyVars, memVars, navVars, timerVars>>

\* The head of the for loop with counter a: enter the body, or leave the loop
\* and return (round budget exhausted).
ForHead(a, pages, questions) ==
  /\ attempt' = a
  /\ pageState' = NoPageState
  /\ completionResult' = NoResult
  /\ roundTrace' = <<>>
  /\ absorbed' = FALSE
  /\ IF LoopCondition(a, maxContinuousAttempts)
     THEN /\ loopPc' = "analysis"
          /\ roundsStarted' = roundsStarted + 1
          /\ loopResult' = NoLoopResult
          /\ exitCause' = "none"
     ELSE /\ loopPc' = "returned"
          /\ roundsStarted' = roundsStarted
          /\ loopResult' = FinalResult(pages, questions)
          /\ exitCause' = "round_budget"

\* break: leave the loop and return (failure budget exhausted)
Break(pages, questions) ==
  /\ loopPc' = "returned"
  /\ loopResult' = FinalResult(pages, questions)
  /\ exitCause' = "failure_budget"
  /\ UNCHANGED <<attempt, pageState, completionResult, roundTrace, absorbed,
                 roundsStarted>>

\* Mutant: a failed round goes on to the next round without being counted.
CountFailureSkipsCounter ==
  /\ continuousFailures' = continuousFailures
  /\ ForHead(attempt + 1, pagesProcessed, totalQuestionsAnswered)

\* continuousFailures++ and the budget test, of the failed navigation
\* (lines 150-159) and of the round's catch (lines 178-186)
CountFailure ==
  /\ continuousFailures' = continuousFailures + 1
  /\ IF BudgetExhausted(continuousFailures + 1)
     THEN Break(pagesProcessed, totalQuestionsAnswered)
     ELSE ForHead(attempt + 1, pagesProcessed, totalQuestionsAnswered)

\* The call: the locals are initialised and the loop is entered.
executeContinuousAnswering ==
  /\ loopPc = "idle"
  /\ maxContinuousAttempts <= MaxAttempts
  /\ pagesProcessed' = 0
  /\ totalQuestionsAnswered' = 0
  /\ continuousFailures' = 0
  /\ roundsCompleted' = 0
  /\ streakNavOnly' = TRUE
  /\ ForHead(1, 0, 0)
  /\ UNCHANGED maxContinuousAttempts
  /\ UNCHANGED <<detVars, sessVars, monVars, clnVars, engVars, storeVars, featVars, proxyVars, memVars, navVars, timerVars>>

\* Step 1, performDeepPageAnalysis: extract answers a page state, or rejects
\* and the fallback analysis is used, or answers a value without the fields
\* read at lines 103-108, which throws into the round's catch.
AnalysisStep ==
  /\ loopPc = "analysis"
  /\ \/ /\ \E ps \in PageStates : pageState' = ps
        /\ loopPc' = "detect"
        /\ roundTrace' = Append(roundTrace, "analysis")
        /\ UNCHANGED <<absorbed, attempt, continuousFailures, completionResult,
                       loopResult, roundsStarted, streakNavOnly, exitCause>>
     \/ /\ pageState' = FallbackPageState
        /\ absorbed' = TRUE
        /\ loopPc' = "detect"
        /\ roundTrace' = Append(roundTrace, "analysis")
        /\ UNCHANGED <<attempt, continuousFailures, completionResult,
                       loopResult, roundsStarted, streakNavOnly, exitCause>>
     \/ /\ streakNavOnly' = FALSE
        /\ CountFailure
  /\ UNCHANGED <<maxContinuousAttempts, pagesProcessed, totalQuestionsAnswered,
                 roundsCompleted>>
  /\ UNCHANGED <<detVars, sessVars, monVars, clnVars, engVars, storeVars, featVars, proxyVars, memVars, navVars, timerVars>>

\* Step 2, intelligentCompletionDetection and the exit test
DetectionStep ==
  /\ loopPc = "detect"
  /\ \E p \in LoopPages :
       /\ DetectionCall(p)
       /\ completionResult' = DetectionOf[p]
       /\ absorbed' = (absorbed \/ DetectionThrows(p))
       /\ IF ShouldExit(DetectionOf[p])
          THEN /\ loopPc' = "returned"
               /\ loopResult' = CompletedResult(pagesProcessed, totalQuestionsAnswered,
                                                DetectionOf[p])
               /\ exitCause' = "completion"
          ELSE /\ loopPc' = IF pageState.hasQuestions /\ pageState.hasUnAnsweredQuestions
                            THEN "answer" ELSE "navigate"
               /\ UNCHANGED <<loopResult, exitCause>>
  /\ roundTrace' = Append(roundTrace, "detect")
  /\ UNCHANGED <<maxContinuousAttempts, attempt, pagesProcessed, totalQuestionsAnswered,
                 continuousFailures, pageState, roundsStarted, roundsCompleted,
                 streakNavOnly>>
  /\ UNCHANGED <<sessVars, monVars, clnVars, engVars, storeVars, featVars, proxyVars, memVars, navVars, timerVars>>

\* answerQuestionsIntelligently: the count it returns.  act answers
\* ("answered"); act rejects and the backup act answers ("backup"); both reject
\* ("failed").
answeredCount(ps, outcome) ==
  CASE outcome = "answered" -> ps.questionCount
    [] outcome = "backup" -> 1
    [] outcome = "failed" -> 0

\* The memory after answerQuestionsIntelligently: the page's answers and one
\* step of position when the first act and the URL read succeed; the backup
\* record when act or the URL read failed, the backup act answered and the
\* URL could then be read
MemoryAfterAnswering(mem, ps, actOk, currentUrl, backupUrl) ==
  IF actOk /\ currentUrl # Throws
  THEN advancePosition(RecordPage(mem, ps.questionCount, 1, currentUrl))
  ELSE IF backupUrl # Throws
  THEN recordQuestionAnswer(mem, BackupQuestionText, <<>>, "backup_answered",
                            BackupAnswerText, backupUrl)
  ELSE mem

\* The ids recordQuestionAnswer was called with in the round
IdsRecorded(ps, actOk, currentUrl, backupUrl) ==
  IF actOk /\ currentUrl # Throws
  THEN {generateQuestionId(QuestionTextOf(ps.questionCount, number), currentUrl) :
          number \in 1..ps.questionCount}
  ELSE IF backupUrl # Throws
  THEN {generateQuestionId(BackupQuestionText, backupUrl)}
  ELSE {}

\* The getConsistentAnswerSuggestion calls answerQuestionsIntelligently makes
\* before act: none, whatever the memory and the page
SuggestionsQueried(mem, ps) == <<>>

\* The memory's part of the prompt of act: the last three entries of the
\* summary, whatever the questions of the page
recentAnswers(summary) == slice(summary, 3)

\* Step 3, answering.  With a memory manager the summary is read before the
\* first act, and page.url() is read after an act that answered
AnsweringStep ==
  /\ loopPc = "answer"
  /\ \E actOk \in BOOLEAN, backupOk \in BOOLEAN :
     \E currentUrl \in (IF memoryManager /\ actOk THEN UrlReads ELSE {NoUrlRead}) :
     \E backupUrl \in (IF memoryManager /\ backupOk /\ ~(actOk /\ currentUrl # Throws)
                       THEN UrlReads ELSE {Throws}) :
       LET outcome == IF actOk /\ currentUrl # Throws THEN "answered"
                      ELSE IF backupOk THEN "backup"
                      ELSE "failed"
           ids == IdsRecorded(pageState, actOk, currentUrl, backupUrl)
       IN  /\ totalQuestionsAnswered' =
                totalQuestionsAnswered + answeredCount(pageState, outcome)
           /\ absorbed' = (absorbed \/ outcome # "answered")
           /\ IF memoryManager
              THEN /\ lookup' = [round |-> attempt, summary |-> getMemorySummary(memory),
                                 written |-> written,
                                 suggestions |-> SuggestionsQueried(memory, pageState),
                                 recentAnswers |-> recentAnswers(getMemorySummary(memory))]
                   /\ memory' = MemoryAfterAnswering(memory, pageState, actOk,
                                                     currentUrl, backupUrl)
                   /\ written' =
                        IF ids = {} THEN written
                        ELSE [round |-> attempt, ids |-> ids,
                              answers |-> [id \in ids |-> memory'.questions[id].answerText],
                              disturbed |-> FALSE]
              ELSE UNCHANGED <<memory, written, lookup>>
  /\ loopPc' = "navigate"
  /\ roundTrace' = Append(roundTrace, "answer")
  /\ UNCHANGED memoryManager
  /\ UNCHANGED <<maxContinuousAttempts, attempt, pagesProcessed, continuousFailures,
                 pageState, completionResult, loopResult, roundsStarted,
                 roundsCompleted, streakNavOnly, exitCause>>
  /\ UNCHANGED <<detVars, sessVars, monVars, clnVars, engVars, storeVars, featVars, proxyVars, navVars, timerVars>>

\* performIntelligentNavigation: submit > next > continue > search, each one
\* act; the result when act rejects (actThrows) or not.
performIntelligentNavigation(ps, actThrows) ==
  IF actThrows
  THEN [success |-> FALSE, action |-> "navigation failed", pageChanged |-> FALSE]
  ELSE [success |-> TRUE,
        action |-> IF ps.navigationOptions.hasSubmitButton THEN "click submit"
                   ELSE IF ps.navigationOptions.hasNextButton THEN "click next"
                   ELSE IF ps.navigationOptions.hasContinueButton THEN "click continue"
                   ELSE "search and click",
        pageChanged |-> TRUE]

\* pagesProcessed++; continuousFailures = 0 (lines 172-173), then the sleep
CountPage ==
  /\ pagesProcessed' = pagesProcessed + 1
  /\ continuousFailures' = 0
  /\ streakNavOnly' = TRUE
  /\ loopPc' = "sleep"

\* Step 4, navigation and its failure branch
NavigationStep ==
  /\ loopPc = "navigate"
  /\ \E actThrows \in BOOLEAN :
       LET navigationResult == performIntelligentNavigation(pageState, actThrows)
       IN  IF ~navigationResult.success
           THEN /\ roundsCompleted' = roundsCompleted
                /\ CountFailure
                /\ UNCHANGED <<pagesProcessed, streakNavOnly>>
           ELSE /\ roundsCompleted' = roundsCompleted + 1
                /\ roundTrace' = Append(roundTrace, "navigate")
                /\ pageState' = NoPageState
                /\ IF navigationResult.pageChanged
                   THEN /\ loopPc' = "stability"
                        /\ UNCHANGED <<pagesProcessed, continuousFailures, streakNavOnly>>
                   ELSE CountPage
                /\ UNCHANGED <<attempt, completionResult, loopResult, roundsStarted,
                               absorbed, exitCause>>
  /\ UNCHANGED <<maxContinuousAttempts, totalQuestionsAnswered>>
  /\ UNCHANGED <<detVars, sessVars, monVars, clnVars, engVars, storeVars, featVars, proxyVars, memVars, navVars, timerVars>>

\* Step 5, waitForPageStability (its timeout is caught inside), then the
\* round is counted.
StabilityStep ==
  /\ loopPc = "stability"
  /\ \E isStable \in BOOLEAN : absorbed' = (absorbed \/ ~isStable)
  /\ CountPage
  /\ roundTrace' = Append(roundTrace, "stability")
  /\ UNCHANGED <<maxContinuousAttempts, attempt, totalQuestionsAnswered, pageState,
                 completionResult, loopResult, roundsStarted, roundsCompleted,
                 exitCause>>
  /\ UNCHANGED <<detVars, sessVars, monVars, clnVars, engVars, storeVars, featVars, proxyVars, memVars, navVars, timerVars>>

\* The 1.5 s sleep that ends a successful round, then the next round
SleepStep ==
  /\ loopPc = "sleep"
  /\ ForHead(attempt + 1, pagesProcessed, totalQuestionsAnswered)
  /\ UNCHANGED <<maxContinuousAttempts, pagesProcessed, totalQuestionsAnswered,
                 continuousFailures, roundsCompleted, streakNavOnly>>
  /\ UNCHANGED <<detVars, sessVars, monVars, clnVars, engVars, storeVars, featVars, proxyVars, memVars, navVars, timerVars>>

(***************************************************************************)
(* ContinuousAnsweringEnhancer.performIntelligentNavigation, called once   *)
(* on the navigation options of any page: the act it issues and the result *)
(* it returns.                                                             *)
(***************************************************************************)
TextSubmit == <<"S","u","b","m","i","t">>

TextNext == <<"N","e","x","t">>

\* '提交' and '下一页', the texts the prompts fall back on
DefaultSubmitText == <<"U+63D0","U+4EA4">>

DefaultNextText == <<"U+4E0B","U+4E00","U+9875">>

\* What page.extract may answer for the navigation options: every
\* combination of the three buttons; a button text is a text, the empty
\* string or absent
NavigationOptions ==
  [hasSubmitButton : BOOLEAN, hasNextButton : BOOLEAN, hasContinueButton : BOOLEAN,
   submitButtonText : {Undefined, <<>>, TextSubmit},
   nextButtonText : {Undefined, <<>>, TextNext}]

\* text || fallback
OrElse(text, fallback) == IF text = Undefined \/ text = <<>> THEN fallback ELSE text

\* The act with next put before submit
navigationActNextFirst(navigationOptions) ==
  IF navigationOptions.hasNextButton
  THEN [button |-> "next", text |-> OrElse(navigationOptions.nextButtonText, DefaultNextText)]
  ELSE IF navigationOptions.hasSubmitButton
  THEN [button |-> "submit",
        text |-> OrElse(navigationOptions.submitButtonText, DefaultSubmitText)]
  ELSE IF navigationOptions.hasContinueButton
  THEN [button |-> "continue", text |-> <<>>]
  ELSE [button |-> "search", text |-> <<>>]

\* The one page.act call of performIntelligentNavigation: the button its
\* prompt asks to click and the text the prompt names it by
navigationAct(navigationOptions) ==
  IF navigationOptions.hasSubmitButton
  THEN [button |-> "submit",
        text |-> OrElse(navigationOptions.submitButtonText, DefaultSubmitText)]
  ELSE IF navigationOptions.hasNextButton
  THEN [button |-> "next", text |-> OrElse(navigationOptions.nextButtonText, DefaultNextText)]
  ELSE IF navigationOptions.hasContinueButton
  THEN [button |-> "continue", text |-> <<>>]
  ELSE [button |-> "search", text |-> <<>>]

NotNavigated == [navigated |-> FALSE]

NavigationInit == navigated = NotNavigated

\* performIntelligentNavigation on a page with the given options; act
\* resolves or rejects
Navigate ==
  /\ navigated = NotNavigated
  /\ \E navigationOptions \in NavigationOptions, actThrows \in BOOLEAN :
       navigated' =
         [navigated |-> TRUE, navigationOptions |-> navigationOptions,
          acts |-> <<navigationAct(navigationOptions)>>,
          result |-> performIntelligentNavigation(
                       [navigationOptions |-> navigationOptions], actThrows)]
  /\ UNCHANGED <<detVars, loopVars, sessVars, monVars, clnVars, engVars, memVars, storeVars,
                 featVars, proxyVars, timerVars>>

(***************************************************************************)
(* QuestionnaireSystem: startAnswering, executeAnswering, stopSession and  *)
(* cleanupSession, with the maps of QinguoProxyManager and AdsPowerManager *)
(* they work on.  The calls are cut at their awaits.                       *)
(***************************************************************************)
SessionIds == {"s1", "s2"}

\* The stopSession calls made on one session
MaxStops == 2

\* AdsPowerManager.activeBrowsers keys: createBrowserOptimized stores the
\* browser under the profile id AdsPower gave it, cleanupBrowser looks the
\* session id up.
ProfileKey(sessionId) == [profileId |-> sessionId]

SessionKey(sessionId) == [sessionId |-> sessionId]

SessionInit ==
  /\ sessStatus = [s \in SessionIds |-> "absent"]
  /\ sessError = [s \in SessionIds |-> "none"]
  /\ sessResult = [s \in SessionIds |-> "none"]
  /\ execPc = [s \in SessionIds |-> "none"]
  /\ stopPc = [s \in SessionIds |-> "idle"]
  /\ allocatedProxies = {}
  /\ activeBrowsers = {}
  /\ browsers = {}
  /\ events = [s \in SessionIds |-> <<>>]
  /\ stopCalls = [s \in SessionIds |-> 0]
  /\ stopsOutsideRun = [s \in SessionIds |-> FALSE]
  /\ cleanupCalls = [s \in SessionIds |-> 0]

\* LifecycleManager.recordEvent: the event is pushed before the first await
recordEvent(sessionId, type) ==
  events' = [events EXCEPT ![sessionId] = Append(@, type)]

\* startAnswering: the session is created, 'created' is recorded and
\* executeAnswering is launched (it runs to its first await, getProfile).
startAnswering(sessionId) ==
  /\ sessStatus[sessionId] = "absent"
  /\ sessStatus' = [sessStatus EXCEPT ![sessionId] = "pending"]
  /\ recordEvent(sessionId, "created")
  /\ execPc' = [execPc EXCEPT ![sessionId] = "getProfile"]
  /\ UNCHANGED <<sessError, sessResult, stopPc, allocatedProxies, activeBrowsers,
                 browsers, stopCalls, stopsOutsideRun,
                 cleanupCalls>>
  /\ UNCHANGED <<detVars, loopVars, monVars, clnVars, engVars, storeVars, featVars, proxyVars, memVars, navVars, timerVars>>

\* executeAnswering, catch: setError, 'failed' is recorded
ExecCatch(sessionId) ==
  /\ sessStatus' = [sessStatus EXCEPT ![sessionId] = "failed"]
  /\ sessError' = [sessError EXCEPT ![sessionId] = "error"]
  /\ recordEvent(sessionId, "failed")
  /\ execPc' = [execPc EXCEPT ![sessionId] = "finally"]

\* await digitalPersonManager.getProfile: resolves or rejects
GetProfileStep(sessionId) ==
  /\ execPc[sessionId] = "getProfile"
  /\ \/ /\ execPc' = [execPc EXCEPT ![sessionId] = "allocateProxy"]
        /\ UNCHANGED <<sessStatus, sessError, events>>
     \/ ExecCatch(sessionId)
  /\ UNCHANGED <<sessResult, stopPc, allocatedProxies, activeBrowsers, browsers,
                 stopCalls, stopsOutsideRun,
                 cleanupCalls>>
  /\ UNCHANGED <<detVars, loopVars, monVars, clnVars, engVars, storeVars, featVars, proxyVars, memVars, navVars, timerVars>>

\* await proxyManager.allocateProxy(sessionId): the proxy is recorded under
\* the session id, or the call rejects
AllocateProxyStep(sessionId) ==
  /\ execPc[sessionId] = "allocateProxy"
  /\ \/ /\ allocatedProxies' = allocatedProxies \cup {sessionId}
        /\ execPc' = [execPc EXCEPT ![sessionId] = "createBrowser"]
        /\ UNCHANGED <<sessStatus, sessError, events>>
     \/ /\ ExecCatch(sessionId)
        /\ UNCHANGED allocatedProxies
  /\ UNCHANGED <<sessResult, stopPc, activeBrowsers, browsers, stopCalls, stopsOutsideRun,
                 cleanupCalls>>
  /\ UNCHANGED <<detVars, loopVars, monVars, clnVars, engVars, storeVars, featVars, proxyVars, memVars, navVars, timerVars>>

\* await createOptimizedAdsPowerBrowser: the browser runs and is recorded
\* under its profile id, then setStatus('running') and 'started' is recorded;
\* or all retries fail and the call rejects
CreateBrowserStep(sessionId) ==
  /\ execPc[sessionId] = "createBrowser"
  /\ \/ /\ browsers' = browsers \cup {sessionId}
        /\ activeBrowsers' = activeBrowsers \cup {ProfileKey(sessionId)}
        /\ sessStatus' = [sessStatus EXCEPT ![sessionId] = "running"]
        /\ recordEvent(sessionId, "started")
        /\ execPc' = [execPc EXCEPT ![sessionId] = "started"]
        /\ UNCHANGED sessError
     \/ /\ ExecCatch(sessionId)
        /\ UNCHANGED <<browsers, activeBrowsers>>
  /\ UNCHANGED <<sessResult, stopPc, allocatedProxies, stopCalls, stopsOutsideRun,
                 cleanupCalls>>
  /\ UNCHANGED <<detVars, loopVars, monVars, clnVars, engVars, storeVars, featVars, proxyVars, memVars, navVars, timerVars>>

\* await recordEvent('started') resolves: startWebUIStyleStagehandAnswering
\* is called
StartedStep(sessionId) ==
  /\ execPc[sessionId] = "started"
  /\ execPc' = [execPc EXCEPT ![sessionId] = "answering"]
  /\ UNCHANGED <<sessStatus, sessError, sessResult, stopPc, allocatedProxies,
                 activeBrowsers, browsers, events, stopCalls, stopsOutsideRun,
                 cleanupCalls>>
  /\ UNCHANGED <<detVars, loopVars, monVars, clnVars, engVars, storeVars, featVars, proxyVars, memVars, navVars, timerVars>>

\* await startWebUIStyleStagehandAnswering resolves (it catches its own
\* errors and answers success: false): setResult, 'completed' is recorded
AnsweringDone(sessionId) ==
  /\ execPc[sessionId] = "answering"
  /\ \E success \in BOOLEAN :
       sessResult' = [sessResult EXCEPT ![sessionId] = [success |-> success]]
  /\ sessStatus' = [sessStatus EXCEPT ![sessionId] = "completed"]
  /\ recordEvent(sessionId, "completed")
  /\ execPc' = [execPc EXCEPT ![sessionId] = "finally"]
  /\ UNCHANGED <<sessError, stopPc, allocatedProxies, activeBrowsers, browsers,
                 stopCalls, stopsOutsideRun,
                 cleanupCalls>>
  /\ UNCHANGED <<detVars, loopVars, monVars, clnVars, engVars, storeVars, featVars, proxyVars, memVars, navVars, timerVars>>

\* QinguoProxyManager.releaseProxy
releaseProxy(proxies, sessionId) == proxies \ {sessionId}

\* AdsPowerManager.cleanupBrowser(sessionId): whether it finds a browser
cleanupBrowserFinds(sessionId) == SessionKey(sessionId) \in activeBrowsers

\* cleanupSession up to its first await: releaseProxy, and cleanupBrowser's
\* look-up; a browser found is stopped, its profile deleted and its key removed
CleanupSessionEnter(sessionId) ==
  /\ cleanupCalls' = [cleanupCalls EXCEPT ![sessionId] = @ + 1]
  /\ allocatedProxies' = releaseProxy(allocatedProxies, sessionId)
  /\ IF cleanupBrowserFinds(sessionId)
     THEN /\ browsers' = browsers \ {sessionId}
          /\ activeBrowsers' = activeBrowsers \ {SessionKey(sessionId)}
     ELSE UNCHANGED <<browsers, activeBrowsers>>

\* executeAnswering, finally: await recordEvent of the try or the catch
\* resolves and cleanupSession is called
FinallyStep(sessionId) ==
  /\ execPc[sessionId] = "finally"
  /\ CleanupSessionEnter(sessionId)
  /\ execPc' = [execPc EXCEPT ![sessionId] = "cleanupBrowser"]
  /\ UNCHANGED <<sessStatus, sessError, sessResult, stopPc, events, stopCalls,
                 stopsOutsideRun>>
  /\ UNCHANGED <<detVars, loopVars, monVars, clnVars, engVars, storeVars, featVars, proxyVars, memVars, navVars, timerVars>>

\* await cleanupBrowser resolves: 'cleaned' is recorded
ExecCleanupBrowserDone(sessionId) ==
  /\ execPc[sessionId] = "cleanupBrowser"
  /\ recordEvent(sessionId, "cleaned")
  /\ execPc' = [execPc EXCEPT ![sessionId] = "cleaned"]
  /\ UNCHANGED <<sessStatus, sessError, sessResult, stopPc, allocatedProxies,
                 activeBrowsers, browsers, stopCalls, stopsOutsideRun,
                 cleanupCalls>>
  /\ UNCHANGED <<detVars, loopVars, monVars, clnVars, engVars, storeVars, featVars, proxyVars, memVars, navVars, timerVars>>

\* await recordEvent('cleaned') resolves: executeAnswering is over
ExecCleanedDone(sessionId) ==
  /\ execPc[sessionId] = "cleaned"
  /\ execPc' = [execPc EXCEPT ![sessionId] = "done"]
  /\ UNCHANGED <<sessStatus, sessError, sessResult, stopPc, allocatedProxies,
                 activeBrowsers, browsers, events, stopCalls, stopsOutsideRun,
                 cleanupCalls>>
  /\ UNCHANGED <<detVars, loopVars, monVars, clnVars, engVars, storeVars, featVars, proxyVars, memVars, navVars, timerVars>>

\* stopSession: the session is in the map (sessions are never removed from
\* it); status and error are set and cleanupSession is called
stopSession(sessionId) ==
  /\ sessStatus[sessionId] # "absent"
  /\ stopPc[sessionId] = "idle"
  /\ stopCalls[sessionId] < MaxStops
  /\ stopCalls' = [stopCalls EXCEPT ![sessionId] = @ + 1]
  /\ stopsOutsideRun' = [stopsOutsideRun EXCEPT
                          ![sessionId] = @ \/ execPc[sessionId] \notin {"started", "answering"}]
  /\ sessStatus' = [sessStatus EXCEPT ![sessionId] = "failed"]
  /\ sessError' = [sessError EXCEPT ![sessionId] = "stopped by user"]
  /\ CleanupSessionEnter(sessionId)
  /\ stopPc' = [stopPc EXCEPT ![sessionId] = "cleanupBrowser"]
  /\ UNCHANGED <<sessResult, execPc, events>>
  /\ UNCHANGED <<detVars, loopVars, monVars, clnVars, engVars, storeVars, featVars, proxyVars, memVars, navVars, timerVars>>

\* stopSession: await cleanupBrowser resolves, 'cleaned' is recorded
StopCleanupBrowserDone(sessionId) ==
  /\ stopPc[sessionId] = "cleanupBrowser"
  /\ recordEvent(sessionId, "cleaned")
  /\ stopPc' = [stopPc EXCEPT ![sessionId] = "cleaned"]
  /\ UNCHANGED <<sessStatus, sessError, sessResult, execPc, allocatedProxies,
                 activeBrowsers, browsers, stopCalls, stopsOutsideRun,
                 cleanupCalls>>
  /\ UNCHANGED <<detVars, loopVars, monVars, clnVars, engVars, storeVars, featVars, proxyVars, memVars, navVars, timerVars>>

\* stopSession: await recordEvent('cleaned') resolves, the call returns true
StopCleanedDone(sessionId) ==
  /\ stopPc[sessionId] = "cleaned"
  /\ stopPc' = [stopPc EXCEPT ![sessionId] = "idle"]
  /\ UNCHANGED <<sessStatus, sessError, sessResult, execPc, allocatedProxies,
                 activeBrowsers, browsers, events, stopCalls, stopsOutsideRun,
                 cleanupCalls>>
  /\ UNCHANGED <<detVars, loopVars, monVars, clnVars, engVars, storeVars, featVars, proxyVars, memVars, navVars, timerVars>>

(***************************************************************************)
(* QinguoProxyManager: allocateProxy, cut at its await of the tunnel       *)
(* configuration, generateSessionId and releaseProxy, called for the       *)
(* sessions.  A session has one allocateProxy call at a time, as           *)
(* executeAnswering makes one for each session it runs.                    *)
(***************************************************************************)
MaxAllocations == 3

MaxClock == 2

\* Math.floor(Math.random() * 90000) + 10000, two of its values
RandomFactors == {10000, 99999}

\* Math.random().toString(36).substring(2, 8), two of its values
MacSuffixes == {"0a1b2c", "zzzzzz"}

NoLease == [sessionId |-> <<>>, fullAddress |-> "none"]

NotAllocating == <<>>

\* Map.prototype.has, get, set and delete on the entries of a Map
mapHas(map, key) == \E i \in 1..Len(map) : map[i].key = key

mapGet(map, key) ==
  IF mapHas(map, key) THEN map[CHOOSE i \in 1..Len(map) : map[i].key = key].value
  ELSE NoLease

mapSet(map, key, value) ==
  IF mapHas(map, key)
  THEN [i \in 1..Len(map) |-> IF map[i].key = key THEN [key |-> key, value |-> value]
                              ELSE map[i]]
  ELSE Append(map, [key |-> key, value |-> value])

mapDelete(map, key) == SelectSeq(map, LAMBDA entry : entry.key # key)

ProxyInit ==
  /\ leaseTable = <<>>
  /\ sessionCounter = 0
  /\ lastSessionTime = 0
  /\ proxyClock = 1
  /\ allocating = [s \in SessionIds |-> NotAllocating]
  /\ leaseHeld = [s \in SessionIds |-> NoLease]
  /\ proxyLast = [op |-> "new", sessionId |-> "none"]

\* generateSessionId without the session counter in the id
generateSessionIdUncounted(currentTime, lastTime, counter, randomFactor, macSuffix) ==
  [lastSessionTime |-> IF currentTime <= lastTime THEN currentTime + 1 ELSE currentTime,
   sessionCounter |-> counter + 1,
   sessionId |-> <<IF currentTime <= lastTime THEN currentTime + 1 ELSE currentTime,
                   0, randomFactor, macSuffix>>]

\* generateSessionId: the new lastSessionTime and sessionCounter, and the id
\* `${authKey}_${lastSessionTime}_${sessionCounter}_${randomFactor}_${macSuffix}`
generateSessionId(currentTime, lastTime, counter, randomFactor, macSuffix) ==
  [lastSessionTime |-> IF currentTime <= lastTime THEN currentTime + 1 ELSE currentTime,
   sessionCounter |-> counter + 1,
   sessionId |-> <<IF currentTime <= lastTime THEN currentTime + 1 ELSE currentTime,
                   counter + 1, randomFactor, macSuffix>>]

\* createTunnelProxyConfig: the ProxyInfo of a proxy session id; every one
\* has the address of the one tunnel
ProxyInfo(proxySessionId) == [sessionId |-> proxySessionId, fullAddress |-> "tunnel"]

\* allocateProxy up to its await: a session that has a proxy gets it back,
\* another one has a proxy session id generated
AllocateProxyEnter(sessionId) ==
  /\ allocating[sessionId] = NotAllocating
  /\ proxyLast' = [op |-> "allocateProxy", sessionId |-> sessionId]
  /\ IF mapHas(leaseTable, sessionId)
     THEN /\ leaseHeld' = [leaseHeld EXCEPT ![sessionId] = mapGet(leaseTable, sessionId)]
          /\ UNCHANGED <<sessionCounter, lastSessionTime, allocating>>
     ELSE /\ sessionCounter < MaxAllocations
          /\ \E randomFactor \in RandomFactors, macSuffix \in MacSuffixes :
               LET generated == generateSessionId(proxyClock, lastSessionTime,
                                                  sessionCounter, randomFactor, macSuffix)
               IN  /\ lastSessionTime' = generated.lastSessionTime
                   /\ sessionCounter' = generated.sessionCounter
                   /\ allocating' = [allocating EXCEPT ![sessionId] = generated.sessionId]
          /\ UNCHANGED leaseHeld
  /\ UNCHANGED <<leaseTable, proxyClock>>
  /\ UNCHANGED <<detVars, loopVars, sessVars, monVars, clnVars, engVars, memVars, storeVars, featVars, navVars, timerVars>>

\* allocateProxy from its await on: the configuration is recorded and
\* returned, or the test of the tunnel threw and allocateProxy throws
AllocateProxyResolve(sessionId) ==
  /\ allocating[sessionId] # NotAllocating
  /\ allocating' = [allocating EXCEPT ![sessionId] = NotAllocating]
  /\ proxyLast' = [op |-> "allocateProxy", sessionId |-> sessionId]
  /\ \E configThrows \in BOOLEAN :
       IF configThrows
       THEN UNCHANGED <<leaseTable, leaseHeld>>
       ELSE /\ leaseTable' = mapSet(leaseTable, sessionId, ProxyInfo(allocating[sessionId]))
            /\ leaseHeld' = [leaseHeld EXCEPT ![sessionId] = ProxyInfo(allocating[sessionId])]
  /\ UNCHANGED <<sessionCounter, lastSessionTime, proxyClock>>
  /\ UNCHANGED <<detVars, loopVars, sessVars, monVars, clnVars, engVars, memVars, storeVars, featVars, navVars, timerVars>>

\* releaseProxy: the entry of the session is deleted
ReleaseProxy(sessionId) ==
  /\ leaseTable' = mapDelete(leaseTable, sessionId)
  /\ proxyLast' = [op |-> "releaseProxy", sessionId |-> sessionId]
  /\ UNCHANGED <<sessionCounter, lastSessionTime, proxyClock, allocating, leaseHeld>>
  /\ UNCHANGED <<detVars, loopVars, sessVars, monVars, clnVars, engVars, memVars, storeVars, featVars, navVars, timerVars>>

\* A second passes
ProxyTick ==
  /\ proxyClock < MaxClock
  /\ proxyClock' = proxyClock + 1
  /\ UNCHANGED <<leaseTable, sessionCounter, lastSessionTime, allocating, leaseHeld,
                 proxyLast>>
  /\ UNCHANGED <<detVars, loopVars, sessVars, monVars, clnVars, engVars, memVars, storeVars, featVars, navVars, timerVars>>

(***************************************************************************)
(* WindowMonitoringSystem: one session monitored by an interval timer.     *)
(* Every firing of the timer starts a performWindowCheck of its own; the   *)
(* calls are cut at their awaits (the status request, the cleanup).        *)
(***************************************************************************)
\* defaultConfig.maxRetries
maxRetries == 3

\* The polls that can wait for their status request at once: the request is
\* given up after 5000 ms and the timer fires every 2000 ms.
MaxOverlap == 2

\* The polls made on the session
MaxPolls == 4

MonitorInit ==
  /\ monActive = FALSE
  /\ monStatus = "none"
  /\ checkCount = 0
  /\ errorCount = 0
  /\ monitorInterval = FALSE
  /\ stopFlag = FALSE
  /\ monitorStopFlag = FALSE
  /\ enableAutoCleanup = TRUE
  /\ checking = 0
  /\ cleaning = 0
  /\ closedDetected = FALSE
  /\ cleanupInvocations = 0
  /\ lastAnswer = "none"

\* startMonitoring, called once for the session, with enableAutoCleanup
\* as given in config (default TRUE)
startMonitoring(autoCleanup) ==
  /\ monStatus = "none"
  /\ monStatus' = "monitoring"
  /\ checkCount' = 0
  /\ errorCount' = 0
  /\ stopFlag' = FALSE
  /\ monitorInterval' = TRUE
  /\ monitorStopFlag' = FALSE
  /\ enableAutoCleanup' = autoCleanup
  /\ monActive' = TRUE
  /\ UNCHANGED <<checking, cleaning, closedDetected, cleanupInvocations, lastAnswer>>
  /\ UNCHANGED <<detVars, loopVars, sessVars, clnVars, engVars, storeVars, featVars, proxyVars, memVars, navVars, timerVars>>

\* stopMonitoringTimer
stopMonitoringTimer == monitorInterval' = FALSE

\* stopMonitoring(sessionId): nothing when the session is not in the map
StopMonitoringBody ==
  IF monActive
  THEN /\ stopFlag' = TRUE
       /\ monitorStopFlag' = TRUE
       /\ stopMonitoringTimer
       /\ monStatus' = "idle"
       /\ monActive' = FALSE
  ELSE UNCHANGED <<stopFlag, monitorStopFlag, monitorInterval, monStatus, monActive>>

\* stopMonitoring called from outside
stopMonitoring ==
  /\ monStatus # "none"
  /\ monActive
  /\ StopMonitoringBody
  /\ UNCHANGED <<checkCount, errorCount, enableAutoCleanup, checking, cleaning,
                 closedDetected, cleanupInvocations, lastAnswer>>
  /\ UNCHANGED <<detVars, loopVars, sessVars, clnVars, engVars, storeVars, featVars, proxyVars, memVars, navVars, timerVars>>

\* The timer fires: performWindowCheck up to its await of the status request
performWindowCheck ==
  /\ monitorInterval
  /\ checking < MaxOverlap
  /\ checkCount < MaxPolls
  /\ IF stopFlag \/ monitorStopFlag
     THEN /\ StopMonitoringBody
          /\ UNCHANGED <<checkCount, checking>>
     ELSE /\ checkCount' = checkCount + 1
          /\ checking' = checking + 1
          /\ UNCHANGED <<stopFlag, monitorStopFlag, monitorInterval, monStatus, monActive>>
  /\ UNCHANGED <<errorCount, enableAutoCleanup, cleaning, closedDetected,
                 cleanupInvocations, lastAnswer>>
  /\ UNCHANGED <<detVars, loopVars, sessVars, clnVars, engVars, storeVars, featVars, proxyVars, memVars, navVars, timerVars>>

\* UnifiedResourceCleanupManager.phase1StopMonitoring: the flag is set when
\* sessionData still holds the timer
phase1StopMonitoring(hasInterval, flag) == IF hasInterval THEN TRUE ELSE flag

\* handleWindowClosed up to its await of executeComprehensiveCleanup
handleWindowClosed ==
  /\ monStatus' = "cleanup_in_progress"
  /\ stopMonitoringTimer
  /\ monitorStopFlag' = phase1StopMonitoring(FALSE, monitorStopFlag)
  /\ cleanupInvocations' = cleanupInvocations + 1
  /\ cleaning' = cleaning + 1

\* status = WINDOW_CLOSED, then handleWindowClosed when enableAutoCleanup
WindowClosed ==
  /\ closedDetected' = TRUE
  /\ IF enableAutoCleanup
     THEN handleWindowClosed
     ELSE /\ monStatus' = "window_closed"
          /\ UNCHANGED <<monitorInterval, monitorStopFlag, cleanupInvocations, cleaning>>

\* What the status request of a poll can end with: an HTTP response (status,
\* and for 200 whether the body says code 0 and status 'Active'), or a
\* rejected fetch (status 0) with the message of its error
MsgAborted ==
  <<"T","h","i","s"," ","o","p","e","r","a","t","i","o","n"," ",
    "w","a","s"," ","a","b","o","r","t","e","d">>

MsgFetchFailed == <<"f","e","t","c","h"," ","f","a","i","l","e","d">>

MsgTimeout == <<"n","e","t","w","o","r","k"," ","t","i","m","e","o","u","t">>

MsgRefused ==
  <<"c","o","n","n","e","c","t"," ","E","C","O","N","N","R","E","F","U","S","E","D">>

\* `AdsPower API ${response.status}` with the two characters the source has
\* between "API " and the status
MsgApiReturned(status) ==
  <<"A","d","s","P","o","w","e","r"," ","A","P","I"," ","U+8FD4","U+56DE"," ">> \o status

StatusAnswers ==
  {[status |-> 200, active |-> TRUE, message |-> <<>>],
   [status |-> 200, active |-> FALSE, message |-> <<>>],
   [status |-> 404, active |-> FALSE, message |-> <<>>],
   [status |-> 500, active |-> FALSE, message |-> <<>>],
   [status |-> 0, active |-> FALSE, message |-> MsgAborted],
   [status |-> 0, active |-> FALSE, message |-> MsgFetchFailed],
   [status |-> 0, active |-> FALSE, message |-> MsgTimeout],
   [status |-> 0, active |-> FALSE, message |-> MsgRefused]}

\* The catch of checkAdsPowerWindowStatus: an error whose message includes
\* 'timeout' or 'ECONNREFUSED' is thrown on, any other error means closed
StatusError(errorMessage) ==
  IF includes(errorMessage, <<"t","i","m","e","o","u","t">>)
       \/ includes(errorMessage, <<"E","C","O","N","N","R","E","F","U","S","E","D">>)
  THEN "throws"
  ELSE "closed"

\* checkAdsPowerWindowStatus: "open" for false, "closed" for true, "throws"
checkAdsPowerWindowStatus(answer) ==
  CASE answer.status = 0 -> StatusError(answer.message)
    [] answer.status = 200 -> IF answer.active THEN "open" ELSE "closed"
    [] answer.status = 404 -> "closed"
    [] OTHER -> StatusError(MsgApiReturned(<<"5","0","0">>))

\* How a poll's status request ended, as the caller of the request sees it
AnswerKind(answer) ==
  CASE answer.status = 200 /\ answer.active -> "active"
    [] answer.status = 200 \/ answer.status = 404 -> "inactive"
    [] OTHER -> "request_error"

\* A poll's status request ends: performWindowCheck after its await
CheckResolved ==
  /\ checking > 0
  /\ checking' = checking - 1
  /\ \E answer \in StatusAnswers :
       LET isWindowClosed == checkAdsPowerWindowStatus(answer)
       IN  /\ lastAnswer' = AnswerKind(answer)
           /\ CASE isWindowClosed = "closed" ->
                     /\ WindowClosed
                     /\ UNCHANGED errorCount
                [] isWindowClosed = "open" ->
                     /\ errorCount' = 0
                     /\ UNCHANGED <<monStatus, monitorInterval, monitorStopFlag,
                                    cleanupInvocations, cleaning, closedDetected>>
                [] isWindowClosed = "throws" ->
                     /\ errorCount' = errorCount + 1
                     /\ IF errorCount + 1 >= maxRetries
                        THEN WindowClosed
                        ELSE UNCHANGED <<monStatus, monitorInterval, monitorStopFlag,
                                         cleanupInvocations, cleaning, closedDetected>>
  /\ UNCHANGED <<monActive, checkCount, stopFlag, enableAutoCleanup>>
  /\ UNCHANGED <<detVars, loopVars, sessVars, clnVars, engVars, storeVars, featVars, proxyVars, memVars, navVars, timerVars>>

\* executeComprehensiveCleanup: every phase catches its own failure, so the
\* six phases always run through and success is true
executeComprehensiveCleanup(phaseFailed) == [success |-> TRUE, phaseFailed |-> phaseFailed]

\* A poll's cleanup ends: handleWindowClosed sets the final status and removes
\* the session from the map
CleanupResolved ==
  /\ cleaning > 0
  /\ cleaning' = cleaning - 1
  /\ \E phaseFailed \in BOOLEAN :
       LET cleanupResult == executeComprehensiveCleanup(phaseFailed)
       IN  /\ monStatus' = IF cleanupResult.success THEN "cleanup_completed" ELSE "error"
           \* phase 6 sets sessionData.monitorStopFlag unless its clear() threw
           /\ monitorStopFlag' = (monitorStopFlag \/ ~cleanupResult.phaseFailed)
  /\ monActive' = FALSE
  /\ UNCHANGED <<checkCount, errorCount, monitorInterval, stopFlag,
                 enableAutoCleanup, checking, closedDetected, cleanupInvocations,
                 lastAnswer>>
  /\ UNCHANGED <<detVars, loopVars, sessVars, clnVars, engVars, storeVars, featVars, proxyVars, memVars, navVars, timerVars>>

(***************************************************************************)
(* WindowMonitoringSystem: the interval timers of one sessionId.  Every    *)
(* startMonitoring call makes a MonitoringSession and a timer of its own;  *)
(* both are named by the number of the call.  The calls are given the same *)
(* SessionResourceData.  A callback is run to its end in one step: the     *)
(* status request answers that the window is open or closed, and the       *)
(* cleanup handleWindowClosed awaits runs its phases 1 and 6 on the        *)
(* sessionData.                                                            *)
(***************************************************************************)
\* The startMonitoring calls made for the sessionId
MaxStarts == 3

\* The timer callbacks run
MaxFirings == 4

TimersInit ==
  /\ timersLive = {}
  /\ sessionsEntry = 0
  /\ sessionHolds = {}
  /\ sessionStopFlag = {}
  /\ dataInterval = 0
  /\ dataStopFlag = FALSE
  /\ timerStarts = 0
  /\ timerFirings = 0
  /\ stoppedSince = FALSE
  /\ timerLast = [op |-> "new", timer |-> 0, statusCheck |-> FALSE]

\* startMonitoring: a new MonitoringSession with a new timer; sessionData
\* gets the timer and monitorStopFlag false; the session is stored under the
\* sessionId, replacing the one stored there
MonitorStart ==
  /\ timerStarts < MaxStarts
  /\ timerStarts' = timerStarts + 1
  /\ timersLive' = timersLive \cup {timerStarts + 1}
  /\ sessionHolds' = sessionHolds \cup {timerStarts + 1}
  /\ dataInterval' = timerStarts + 1
  /\ dataStopFlag' = FALSE
  /\ sessionsEntry' = timerStarts + 1
  /\ stoppedSince' = FALSE
  /\ timerLast' = [op |-> "startMonitoring", timer |-> timerStarts + 1, statusCheck |-> FALSE]
  /\ UNCHANGED <<sessionStopFlag, timerFirings>>

\* stopMonitoringTimer(session): clearInterval of the session's timer and of
\* the timer sessionData holds; both fields become undefined
StopTimerOf(session) ==
  /\ timersLive' = timersLive \ ((IF session \in sessionHolds THEN {session} ELSE {})
                                   \cup {dataInterval})
  /\ sessionHolds' = sessionHolds \ {session}
  /\ dataInterval' = 0

\* stopMonitoring(sessionId): nothing when no session is stored; else the
\* flags of the stored session and of sessionData are set, its timers are
\* stopped and it is removed
StopStored ==
  IF sessionsEntry = 0
  THEN UNCHANGED <<timersLive, sessionsEntry, sessionHolds, sessionStopFlag, dataInterval,
                   dataStopFlag, stoppedSince>>
  ELSE /\ sessionStopFlag' = sessionStopFlag \cup {sessionsEntry}
       /\ dataStopFlag' = TRUE
       /\ StopTimerOf(sessionsEntry)
       /\ sessionsEntry' = 0
       /\ stoppedSince' = TRUE

\* stopMonitoring called from outside
MonitorStop ==
  /\ sessionsEntry # 0
  /\ StopStored
  /\ timerLast' = [op |-> "stopMonitoring", timer |-> sessionsEntry, statusCheck |-> FALSE]
  /\ UNCHANGED <<timerStarts, timerFirings>>

\* A live timer fires: performWindowCheck of its MonitoringSession.  With a
\* stop flag set it calls stopMonitoring(sessionId); else it makes the status
\* check, and a closed window has handleWindowClosed stop the timers of the
\* session, run the cleanup (phase 6 sets monitorStopFlag) and remove the
\* session stored under the sessionId
MonitorTimerFires(timer, isWindowClosed) ==
  /\ timer \in timersLive
  /\ timerFirings < MaxFirings
  /\ timerFirings' = timerFirings + 1
  /\ IF timer \in sessionStopFlag \/ dataStopFlag
     THEN /\ StopStored
          /\ timerLast' = [op |-> "performWindowCheck", timer |-> timer,
                           statusCheck |-> FALSE]
     ELSE /\ timerLast' = [op |-> "performWindowCheck", timer |-> timer,
                           statusCheck |-> TRUE]
          /\ IF isWindowClosed
             THEN /\ StopTimerOf(timer)
                  /\ dataStopFlag' = TRUE
                  /\ sessionsEntry' = 0
                  /\ stoppedSince' = TRUE
                  /\ UNCHANGED sessionStopFlag
             ELSE UNCHANGED <<timersLive, sessionsEntry, sessionHolds, sessionStopFlag,
                              dataInterval, dataStopFlag, stoppedSince>>
  /\ UNCHANGED timerStarts

(***************************************************************************)
(* StagehandSuperIntelligentEngine: the pause flag.  The engine whose loop *)
(* is modelled is the superEngine of session EngineSession.  waitForResume, *)
(* the only reader of the flag, is called nowhere.                         *)
(***************************************************************************)
EngineSession == "s1"

EngineInit ==
  /\ isPaused = FALSE
  /\ roundsAtPause = 0

\* StagehandSuperIntelligentEngine.pause
pause ==
  /\ isPaused' = TRUE
  /\ roundsAtPause' = roundsStarted

\* The AnsweringResult executeQuestionnaireAnswering builds from the value
\* executeContinuousAnswering returned.  sessionId and duration are read from
\* the clock; errors is sessionState.errors, which this path never writes
AnsweringResult(enhancedResult) ==
  [success |-> (enhancedResult.finalStatus = "completed"
                  \/ enhancedResult.totalQuestionsAnswered > 0),
   totalQuestions |-> enhancedResult.totalQuestionsAnswered,
   answeredQuestions |-> enhancedResult.totalQuestionsAnswered,
   skippedQuestions |-> 0,
   failedQuestions |-> 0,
   errors |-> <<>>]

(***************************************************************************)
(* UnifiedResourceCleanupManager: one manager, as WindowMonitoringSystem   *)
(* holds it, cleaning the SessionResourceData of the sessions.  A call of  *)
(* executeComprehensiveCleanup is cut at the awaits of its phases.  The    *)
(* steps a phase calls on other objects (pause, close, saveMemoryToDisk,   *)
(* cleanupMemory, cleanupBrowser, releaseProxy, clear) may throw.          *)
(***************************************************************************)
PhaseKeys == {"phase1", "phase2", "phase3", "phase4", "phase5", "phase6"}

\* The bound on executeComprehensiveCleanup calls, all sessions together
MaxCleanupCalls == 2

\* The bound on failing steps per session
MaxStepFailures == 1

NoPhaseResult == [success |-> FALSE, error |-> "absent"]

NoCleanupResult == [success |-> FALSE, phasesCompleted |-> 0 - 1, errors |-> {}]

\* A session's resources before any cleanup.  stagehand is "none", or tells
\* what stagehand.context is: a context of Stagehand's own whose first page
\* is about:blank ("blankPage"), the context of the AdsPower browser with the
\* questionnaire as its first page ("adsPowerPage"), the context of the
\* AdsPower browser with about:blank as its first page ("adsPowerBlankPage").
UrlAboutBlank == <<"a","b","o","u","t",":","b","l","a","n","k">>

StagehandContext(stagehand) ==
  CASE stagehand = "blankPage" -> [adsPower |-> FALSE, firstPageUrl |-> UrlAboutBlank]
    [] stagehand = "adsPowerPage" -> [adsPower |-> TRUE, firstPageUrl |-> UrlQuestion]
    [] stagehand = "adsPowerBlankPage" -> [adsPower |-> TRUE, firstPageUrl |-> UrlAboutBlank]

FullResources(stagehand) ==
  [monitorInterval |-> TRUE, monitorStopFlag |-> FALSE, superEngine |-> TRUE,
   stagehand |-> stagehand, memoryManager |-> TRUE,
   digitalPersonMemoryManager |-> TRUE, adsPowerManager |-> TRUE,
   profileId |-> TRUE, browserInfo |-> TRUE, proxyManager |-> TRUE,
   proxyInfo |-> TRUE, additionalResources |-> TRUE]

\* Only the sessionId is set
BareResources ==
  [monitorInterval |-> FALSE, monitorStopFlag |-> FALSE, superEngine |-> FALSE,
   stagehand |-> "none", memoryManager |-> FALSE,
   digitalPersonMemoryManager |-> FALSE, adsPowerManager |-> FALSE,
   profileId |-> FALSE, browserInfo |-> FALSE, proxyManager |-> FALSE,
   proxyInfo |-> FALSE, additionalResources |-> FALSE]

ResourceSets ==
  {FullResources("blankPage"), FullResources("adsPowerPage"),
   FullResources("adsPowerBlankPage"), BareResources}

CleanupInit ==
  /\ sessionData \in [SessionIds -> ResourceSets]
  /\ currentPhase = "INIT"
  /\ cleanupResults = [k \in PhaseKeys |-> NoPhaseResult]
  /\ phaseWriter = [k \in PhaseKeys |-> "nobody"]
  /\ clnPc = [s \in SessionIds |-> "idle"]
  /\ clnResult = [s \in SessionIds |-> NoCleanupResult]
  /\ clnEffects = [s \in SessionIds |-> {}]
  /\ clnFailed = [s \in SessionIds |-> {}]
  /\ callsMade = [s \in SessionIds |-> 0]
  /\ phasesRun = [s \in SessionIds |-> <<>>]

PhaseSucceeded == [success |-> TRUE, error |-> "none"]

PhaseFailed(step) == [success |-> FALSE, error |-> step]

\* this.cleanupResults.phaseN = result, written by the cleanup of session s
WritePhase(key, result, s) ==
  /\ cleanupResults' = [cleanupResults EXCEPT ![key] = result]
  /\ phaseWriter' = [phaseWriter EXCEPT ![key] = s]

\* A step may fail while the session's failure bound is not used up
MayFail(s, failing) == failing => Cardinality(clnFailed[s]) < MaxStepFailures

TotalCalls == callsMade["s1"] + callsMade["s2"]

\* executeComprehensiveCleanup up to the end of phase1StopMonitoring, which
\* has no await: the timer is cleared and the flag set when sessionData holds
\* the timer, the engine is paused when there is one; a throwing pause() is
\* caught by the phase and recorded in cleanupResults.phase1
CleanupEnter(s, pauseThrows) ==
  LET sd == sessionData[s]
      paused == sd.superEngine
      failed == paused /\ pauseThrows
  IN  /\ clnPc[s] \in {"idle", "returned"}
      /\ TotalCalls < MaxCleanupCalls
      /\ MayFail(s, failed)
      /\ callsMade' = [callsMade EXCEPT ![s] = @ + 1]
      /\ currentPhase' = "STOP_MONITORING"
      /\ sessionData' = [sessionData EXCEPT
           ![s].monitorStopFlag = phase1StopMonitoring(sd.monitorInterval, @)]
      /\ clnEffects' = [clnEffects EXCEPT ![s] =
           (IF sd.monitorInterval THEN {"timerCancel"} ELSE {})
             \cup (IF paused THEN {"enginePause"} ELSE {})]
      /\ clnFailed' = [clnFailed EXCEPT ![s] =
           IF failed THEN @ \cup {"enginePause"} ELSE @]
      /\ WritePhase("phase1", IF failed THEN PhaseFailed("enginePause")
                                         ELSE PhaseSucceeded, s)
      /\ clnResult' = [clnResult EXCEPT ![s] = NoCleanupResult]
      /\ clnPc' = [clnPc EXCEPT ![s] = "phase2"]
      /\ phasesRun' = [phasesRun EXCEPT ![s] = <<1>>]
      /\ IF paused /\ s = EngineSession
         THEN pause
         ELSE UNCHANGED engVars
      /\ UNCHANGED <<detVars, loopVars, sessVars, monVars, memVars, storeVars, featVars, proxyVars, navVars, timerVars>>

\* phase2CleanupStagehand, the test on the URL of the context's first page:
\* a chrome:// or about: page is taken for a page that is not AdsPower's
closesContext(firstPageUrl) ==
  \/ includes(firstPageUrl, <<"c","h","r","o","m","e",":","/","/">>)
  \/ includes(firstPageUrl, <<"a","b","o","u","t",":">>)

\* phase2CleanupStagehand: the context is closed only when its first page is
\* a chrome:// or about: page; a failing close is caught inside the phase
\* and the phase records success
phase2CleanupStagehand(s, closeThrows) ==
  LET sd == sessionData[s]
      closes == /\ sd.stagehand # "none"
                /\ closesContext(StagehandContext(sd.stagehand).firstPageUrl)
      failed == closes /\ closeThrows
  IN  /\ clnPc[s] = "phase2"
      /\ MayFail(s, failed)
      /\ currentPhase' = "CLEANUP_STAGEHAND"
      /\ sessionData' = [sessionData EXCEPT ![s].stagehand = "none",
                                           ![s].superEngine = FALSE]
      /\ clnEffects' = [clnEffects EXCEPT ![s] =
           IF closes THEN @ \cup {"contextClose"} ELSE @]
      /\ clnFailed' = [clnFailed EXCEPT ![s] =
           IF failed THEN @ \cup {"contextClose"} ELSE @]
      /\ WritePhase("phase2", PhaseSucceeded, s)
      /\ clnPc' = [clnPc EXCEPT ![s] = "phase3"]
      /\ phasesRun' = [phasesRun EXCEPT ![s] = Append(@, 2)]
      /\ UNCHANGED <<clnResult, callsMade>>
      /\ UNCHANGED <<detVars, loopVars, sessVars, monVars, engVars, storeVars, featVars, proxyVars, memVars, navVars, timerVars>>

\* phase3CleanupMemory: saveMemoryToDisk, then cleanupMemory unless the save
\* threw; either failure is caught inside the phase
phase3CleanupMemory(s, failing) ==
  LET sd == sessionData[s]
      saves == sd.digitalPersonMemoryManager
      clears == saves /\ failing # "memorySave"
      failed == saves /\ failing # "none"
  IN  /\ clnPc[s] = "phase3"
      /\ MayFail(s, failed)
      /\ currentPhase' = "CLEANUP_MEMORY"
      /\ sessionData' = [sessionData EXCEPT ![s].memoryManager = FALSE,
                                           ![s].digitalPersonMemoryManager = FALSE]
      /\ clnEffects' = [clnEffects EXCEPT ![s] =
           @ \cup (IF saves THEN {"memorySave"} ELSE {})
             \cup (IF clears THEN {"memoryClear"} ELSE {})]
      /\ clnFailed' = [clnFailed EXCEPT ![s] =
           IF failed THEN @ \cup {failing} ELSE @]
      /\ WritePhase("phase3", PhaseSucceeded, s)
      /\ clnPc' = [clnPc EXCEPT ![s] = "phase4"]
      /\ phasesRun' = [phasesRun EXCEPT ![s] = Append(@, 3)]
      /\ UNCHANGED <<clnResult, callsMade>>
      /\ UNCHANGED <<detVars, loopVars, sessVars, monVars, engVars, storeVars, featVars, proxyVars, memVars, navVars, timerVars>>

\* phase4CleanupAdsPower: cleanupBrowser(profileId) whenever the manager and
\* the profile id are set (neither is ever cleared); a failure is caught
\* inside the phase
phase4CleanupAdsPower(s, cleanupBrowserThrows) ==
  LET sd == sessionData[s]
      calls == sd.adsPowerManager /\ sd.profileId
      failed == calls /\ cleanupBrowserThrows
  IN  /\ clnPc[s] = "phase4"
      /\ MayFail(s, failed)
      /\ currentPhase' = "CLEANUP_ADSPOWER"
      /\ sessionData' = [sessionData EXCEPT ![s].browserInfo = FALSE]
      /\ clnEffects' = [clnEffects EXCEPT ![s] =
           IF calls THEN @ \cup {"cleanupBrowser"} ELSE @]
      /\ clnFailed' = [clnFailed EXCEPT ![s] =
           IF failed THEN @ \cup {"cleanupBrowser"} ELSE @]
      /\ WritePhase("phase4", PhaseSucceeded, s)
      /\ clnPc' = [clnPc EXCEPT ![s] = "phase5"]
      /\ phasesRun' = [phasesRun EXCEPT ![s] = Append(@, 4)]
      /\ UNCHANGED <<clnResult, callsMade>>
      /\ UNCHANGED <<detVars, loopVars, sessVars, monVars, engVars, storeVars, featVars, proxyVars, memVars, navVars, timerVars>>

\* phase5CleanupProxy: releaseProxy(sessionId) whenever the proxy manager is
\* set (it is never cleared, and sessionId is always set); a failure is
\* caught inside the phase
phase5CleanupProxy(s, releaseProxyThrows) ==
  LET sd == sessionData[s]
      calls == sd.proxyManager
      failed == calls /\ releaseProxyThrows
  IN  /\ clnPc[s] = "phase5"
      /\ MayFail(s, failed)
      /\ currentPhase' = "CLEANUP_PROXY"
      /\ sessionData' = [sessionData EXCEPT ![s].proxyInfo = FALSE]
      /\ clnEffects' = [clnEffects EXCEPT ![s] =
           IF calls THEN @ \cup {"releaseProxy"} ELSE @]
      /\ clnFailed' = [clnFailed EXCEPT ![s] =
           IF failed THEN @ \cup {"releaseProxy"} ELSE @]
      /\ WritePhase("phase5", PhaseSucceeded, s)
      /\ clnPc' = [clnPc EXCEPT ![s] = "phase6"]
      /\ phasesRun' = [phasesRun EXCEPT ![s] = Append(@, 5)]
      /\ UNCHANGED <<clnResult, callsMade>>
      /\ UNCHANGED <<detVars, loopVars, sessVars, monVars, engVars, storeVars, featVars, proxyVars, memVars, navVars, timerVars>>

\* phase6CleanupThreads: the timer is cleared again when sessionData still
\* holds it, the additional resources are cleared, the stop flag is set.  A
\* throwing clear() is caught by the phase, which then leaves the additional
\* resources and the flag as they are and records the failure
phase6CleanupThreads(s, clearThrows) ==
  LET sd == sessionData[s]
      clears == sd.additionalResources
      failed == clears /\ clearThrows
  IN  /\ clnPc[s] = "phase6"
      /\ MayFail(s, failed)
      /\ currentPhase' = "CLEANUP_THREADS"
      /\ sessionData' = [sessionData EXCEPT
           ![s].monitorInterval = FALSE,
           ![s].additionalResources = IF failed THEN @ ELSE FALSE,
           ![s].monitorStopFlag = IF failed THEN @ ELSE TRUE]
      /\ clnEffects' = [clnEffects EXCEPT ![s] =
           @ \cup (IF sd.monitorInterval THEN {"timerCancel"} ELSE {})
             \cup (IF clears THEN {"resourcesClear"} ELSE {})]
      /\ clnFailed' = [clnFailed EXCEPT ![s] =
           IF failed THEN @ \cup {"resourcesClear"} ELSE @]
      /\ WritePhase("phase6", IF failed THEN PhaseFailed("resourcesClear")
                                         ELSE PhaseSucceeded, s)
      /\ clnPc' = [clnPc EXCEPT ![s] = "return"]
      /\ phasesRun' = [phasesRun EXCEPT ![s] = Append(@, 6)]
      /\ UNCHANGED <<clnResult, callsMade>>
      /\ UNCHANGED <<detVars, loopVars, sessVars, monVars, engVars, storeVars, featVars, proxyVars, memVars, navVars, timerVars>>

\* Object.keys(this.cleanupResults).length
phasesCompleted(results) == Cardinality({k \in PhaseKeys : results[k] # NoPhaseResult})

\* executeComprehensiveCleanup after the sixth phase: no phase lets a failure
\* out, so the catch and its fallbackCleanup are never entered; errors is
\* the empty list it was created as, and details is this.cleanupResults
\* itself (the manager's object, not a copy)
CleanupReturn(s) ==
  /\ clnPc[s] = "return"
  /\ currentPhase' = "COMPLETED"
  /\ clnResult' = [clnResult EXCEPT ![s] =
       [success |-> TRUE, phasesCompleted |-> phasesCompleted(cleanupResults),
        errors |-> {}]]
  /\ clnPc' = [clnPc EXCEPT ![s] = "returned"]
  /\ UNCHANGED <<sessionData, cleanupResults, phaseWriter, clnEffects, clnFailed,
                 callsMade, phasesRun>>
  /\ UNCHANGED <<detVars, loopVars, sessVars, monVars, engVars, storeVars, featVars, proxyVars, memVars, navVars, timerVars>>

(***************************************************************************)
(* The specifications.                                                     *)
(***************************************************************************)
\* No cleanup manager at work: the sessions hold no resources
CleanupIdle == CleanupInit /\ sessionData = [s \in SessionIds |-> BareResources]

InitAll ==
  DetectorInit /\ LoopInit /\ SessionInit /\ MonitorInit /\ CleanupIdle /\ EngineInit
    /\ MemoryInit /\ StoreInit /\ FeaturesInit /\ ProxyInit
    /\ NavigationInit /\ TimersInit

InitDetector == InitAll

NextDetector ==
  Detect /\ UNCHANGED <<loopVars, sessVars, monVars, clnVars, engVars, memVars, storeVars, featVars, proxyVars, navVars, timerVars>>

SpecDetector == InitDetector /\ [][NextDetector]_vars

InitLoop == InitAll

NextLoop ==
  \/ \E n \in AttemptChoices : setMaxContinuousAttempts(n)
  \/ executeContinuousAnswering
  \/ AnalysisStep
  \/ DetectionStep
  \/ AnsweringStep
  \/ NavigationStep
  \/ StabilityStep
  \/ SleepStep

SpecLoop == InitLoop /\ [][NextLoop]_vars

InitSession == InitAll

NextSession ==
  \E sessionId \in SessionIds :
    \/ startAnswering(sessionId)
    \/ GetProfileStep(sessionId)
    \/ AllocateProxyStep(sessionId)
    \/ CreateBrowserStep(sessionId)
    \/ StartedStep(sessionId)
    \/ AnsweringDone(sessionId)
    \/ FinallyStep(sessionId)
    \/ ExecCleanupBrowserDone(sessionId)
    \/ ExecCleanedDone(sessionId)
    \/ stopSession(sessionId)
    \/ StopCleanupBrowserDone(sessionId)
    \/ StopCleanedDone(sessionId)

SpecSession == InitSession /\ [][NextSession]_vars

InitMonitor == InitAll

NextMonitor ==
  \/ \E autoCleanup \in BOOLEAN : startMonitoring(autoCleanup)
  \/ performWindowCheck
  \/ CheckResolved
  \/ CleanupResolved
  \/ stopMonitoring

SpecMonitor == InitMonitor /\ [][NextMonitor]_vars

InitCleanup ==
  DetectorInit /\ LoopInit /\ SessionInit /\ MonitorInit /\ CleanupInit /\ EngineInit
    /\ MemoryInit /\ StoreInit /\ FeaturesInit /\ ProxyInit
    /\ NavigationInit /\ TimersInit

NextCleanup ==
  \E s \in SessionIds :
     \/ \E pauseThrows \in BOOLEAN : CleanupEnter(s, pauseThrows)
     \/ \E closeThrows \in BOOLEAN : phase2CleanupStagehand(s, closeThrows)
     \/ \E failing \in {"none", "memorySave", "memoryClear"} : phase3CleanupMemory(s, failing)
     \/ \E cleanupBrowserThrows \in BOOLEAN : phase4CleanupAdsPower(s, cleanupBrowserThrows)
     \/ \E releaseProxyThrows \in BOOLEAN : phase5CleanupProxy(s, releaseProxyThrows)
     \/ \E clearThrows \in BOOLEAN : phase6CleanupThreads(s, clearThrows)
     \/ CleanupReturn(s)

SpecCleanup == InitCleanup /\ [][NextCleanup]_vars

\* The answering loop of a session and the cleanup of that session's
\* resources, side by side
StopAttempts == 2

InitStop ==
  /\ DetectorInit /\ LoopInit /\ SessionInit /\ MonitorInit /\ CleanupInit /\ EngineInit
  /\ MemoryInit /\ StoreInit /\ FeaturesInit /\ ProxyInit
    /\ NavigationInit /\ TimersInit
  /\ sessionData = [s \in SessionIds |-> IF s = EngineSession
                                          THEN FullResources("adsPowerPage")
                                          ELSE BareResources]

NextStop ==
  \/ setMaxContinuousAttempts(StopAttempts)
  \/ executeContinuousAnswering
  \/ AnalysisStep
  \/ DetectionStep
  \/ AnsweringStep
  \/ NavigationStep
  \/ StabilityStep
  \/ SleepStep
  \/ \E pauseThrows \in BOOLEAN : CleanupEnter(EngineSession, pauseThrows)
  \/ \E closeThrows \in BOOLEAN : phase2CleanupStagehand(EngineSession, closeThrows)
  \/ \E failing \in {"none", "memorySave", "memoryClear"} :
        phase3CleanupMemory(EngineSession, failing)
  \/ \E cleanupBrowserThrows \in BOOLEAN :
        phase4CleanupAdsPower(EngineSession, cleanupBrowserThrows)
  \/ \E releaseProxyThrows \in BOOLEAN : phase5CleanupProxy(EngineSession, releaseProxyThrows)
  \/ \E clearThrows \in BOOLEAN : phase6CleanupThreads(EngineSession, clearThrows)
  \/ CleanupReturn(EngineSession)

SpecStop == InitStop /\ [][NextStop]_vars

\* The loop answering with a memory manager, and cleanupMemory called from
\* outside the loop
MemoryAttempts == 3

InitMemory == InitAll

NextMemory ==
  \/ setMaxContinuousAttempts(MemoryAttempts)
  \/ setMemoryManager
  \/ executeContinuousAnswering
  \/ AnalysisStep
  \/ DetectionStep
  \/ AnsweringStep
  \/ NavigationStep
  \/ StabilityStep
  \/ SleepStep
  \/ cleanupMemory

SpecMemory == InitMemory /\ [][NextMemory]_vars

\* The memory manager's public operations, in any order
InitStore == InitAll

NextStore ==
  \/ StoreRecord(StoreQuestions)
  \/ StoreAdvance
  \/ StoreCleanup
  \/ StoreExport
  \/ StoreImport
  \/ StoreFind(StoreQuestions)
  \/ StoreSuggest(StoreQuestions)
  \/ StoreProgress

SpecStore == InitStore /\ [][NextStore]_vars

\* The questions about coffee recorded and looked up
InitCoffee == InitAll

NextCoffee ==
  \/ StoreRecord(CoffeeQuestions)
  \/ StoreSuggest(CoffeeQuestions)

SpecCoffee == InitCoffee /\ [][NextCoffee]_vars

\* Fingerprints and scores of any two short texts
InitFeatures == InitAll

NextFeatures == GenerateIds \/ ScoreQuestions

SpecFeatures == InitFeatures /\ [][NextFeatures]_vars

\* The proxy manager called for the sessions
InitProxy == InitAll

NextProxy ==
  \/ \E sessionId \in SessionIds :
       \/ AllocateProxyEnter(sessionId)
       \/ AllocateProxyResolve(sessionId)
       \/ ReleaseProxy(sessionId)
  \/ ProxyTick

SpecProxy == InitProxy /\ [][NextProxy]_vars

\* performIntelligentNavigation on any navigation options
InitNavigation == InitAll

NextNavigation == Navigate

SpecNavigation == InitNavigation /\ [][NextNavigation]_vars

\* The timers of one sessionId under startMonitoring, stopMonitoring and
\* the timer callbacks
InitTimers == InitAll

NextTimers ==
  /\ \/ MonitorStart
     \/ MonitorStop
     \/ \E timer \in 1..MaxStarts, isWindowClosed \in BOOLEAN :
          MonitorTimerFires(timer, isWindowClosed)
  /\ UNCHANGED <<detVars, loopVars, sessVars, monVars, clnVars, engVars, memVars,
                 storeVars, featVars, proxyVars, navVars>>

SpecTimers == InitTimers /\ [][NextTimers]_vars

(***************************************************************************)
(* SpecHistory: the detector called on the pages of a run, with            *)
(* updateConfig called between the detections.                             *)
(***************************************************************************)
MaxHistoryChecks == 4

\* The values of maxHistoryRecords passed to updateConfig
HistoryCapacities == {0, 1, 2, 3, DefaultMaxHistoryRecords}

\* updateConfig: the new fields are merged into the configuration; the
\* history is not touched.
updateConfig(newConfig) ==
  /\ config' = [config EXCEPT !.maxHistoryRecords = newConfig.maxHistoryRecords]
  /\ UNCHANGED <<pageStateHistory, completionCheckCount, detPage, detResult>>

HistoryDetect ==
  /\ completionCheckCount < MaxHistoryChecks
  /\ \E p \in LoopPages : DetectionCall(p)

HistoryConfigure ==
  \E n \in HistoryCapacities :
    /\ n # config.maxHistoryRecords
    /\ updateConfig([maxHistoryRecords |-> n])

InitHistory == InitAll

NextHistory ==
  \/ HistoryDetect /\ UNCHANGED <<loopVars, sessVars, monVars, clnVars, engVars, memVars, storeVars, featVars, proxyVars, navVars, timerVars>>
  \/ HistoryConfigure /\ UNCHANGED <<loopVars, sessVars, monVars, clnVars, engVars, memVars, storeVars, featVars, proxyVars, navVars, timerVars>>

SpecHistory == InitHistory /\ [][NextHistory]_vars

(***************************************************************************)
(* Claims about the detector (SpecDetector).                               *)
(***************************************************************************)
Detected == detPage # NoPage

NoUrlPattern == ~UrlHasCompletionPattern(detPage.url)

NoCompletionPhrase == ~TextHasCompletionSignal(BodyTextLower(detPage))

\* C9, as stated: a page whose URL contains none of the completion-URL
\* substrings and whose text contains none of the completion phrases gets a
\* continue verdict (isSuccess = FALSE), error keywords or not.
C9_ContinueWithoutUrlOrPhrase ==
  (Detected /\ NoUrlPattern /\ NoCompletionPhrase) => ~detResult.isSuccess

\* C9, amended: a page whose URL contains none of the completion-URL
\* substrings, whose text contains none of the completion phrases and on which
\* none of the completion-marker elements is found gets isSuccess = FALSE,
\* whether or not error keywords are present.
C9_ContinueWithoutAnySignal ==
  (Detected /\ NoUrlPattern /\ NoCompletionPhrase /\ ~HasCompletionElement(detPage))
     => (~detResult.isSuccess /\ ~detResult.shouldCleanup)

\* A page with an error keyword and no completion signal was given "continue".
C9_Witness ==
  /\ Detected /\ NoUrlPattern /\ NoCompletionPhrase /\ ~HasCompletionElement(detPage)
  /\ detPage.title # Throws
  /\ detectErrorIndicators(BodyTextLower(detPage))
  /\ detResult = ContinueResult

UrlContainsThankYou == includes(detPage.url, completionUrlPatterns[1])

IsCompleteVerdict(r) == r.isSuccess /\ r.successType = "complete"

\* C10, as stated: a URL containing "thank-you" gives isSuccess = TRUE and
\* successType = "complete" whatever the page text is, also when the page text
\* or the title cannot be obtained.
C10_ThankYouAlwaysComplete ==
  (Detected /\ UrlContainsThankYou) => IsCompleteVerdict(detResult)

\* C10, amended: a URL containing "thank-you" gives isSuccess = TRUE and
\* successType = "complete" whatever the page text is, also when the page text
\* cannot be obtained, provided page.title() answers; when page.title()
\* rejects the verdict is detection_error with isSuccess = FALSE.
C10_ThankYouCompleteWhenTitleRead ==
  (Detected /\ UrlContainsThankYou) =>
     IF detPage.title = Throws
     THEN detResult = ErrorResult
     ELSE IsCompleteVerdict(detResult)

\* A "thank-you" URL whose body text could not be read was given "complete".
C10_Witness ==
  /\ Detected /\ UrlContainsThankYou
  /\ detPage.body = Throws /\ detPage.title # Throws /\ detPage.markers = {}
  /\ IsCompleteVerdict(detResult)

\* A read of the page raised an exception during the detection
ReadRaised == detPage.title = Throws \/ detPage.body = Throws \/ detPage.locatorThrows

\* C11, as stated: the detection never throws, and any exception raised while
\* the page signals are read or evaluated gives the verdict isSuccess = FALSE,
\* successType = "detection_error".
C11_AnyExceptionGivesDetectionError ==
  (Detected /\ ReadRaised) =>
     /\ ~detResult.isSuccess
     /\ detResult.successType = "detection_error"

\* C11, amended: the detection never throws, it always returns one of its
\* three verdicts.  When page.title() rejects the verdict is detection_error
\* with isSuccess = FALSE, which does not end the loop.  A rejected read of
\* the body text is replaced by the empty text and a rejected element count is
\* skipped: the verdict is then the one of the remaining signals.
C11_NeverThrowsAlwaysVerdict ==
  Detected =>
     /\ detResult \in {CompleteResult, ContinueResult, ErrorResult}
     /\ (detPage.title = Throws) <=> (detResult = ErrorResult)
     /\ detResult = ErrorResult => (~detResult.isSuccess /\ ~ShouldExit(detResult))
     /\ (detPage.title # Throws /\ detPage.body = Throws) =>
          detResult = intelligentCompletionDetection([detPage EXCEPT !.body = <<>>])
     /\ (detPage.title # Throws /\ detPage.locatorThrows) =>
          detResult = intelligentCompletionDetection([detPage EXCEPT !.markers = {}])

\* Title and body text both rejected: detection_error was returned.
C11_Witness ==
  /\ Detected
  /\ detPage.title = Throws /\ detPage.body = Throws
  /\ detResult = ErrorResult

\* Per body text of the model: whether it holds a completion phrase, whether
\* it holds an error keyword
CompletionSignalIn == [b \in Bodies |-> TextHasCompletionSignal(toLowerCase(b))]

ErrorKeywordIn == [b \in Bodies |-> detectErrorIndicators(toLowerCase(b))]

\* Two pages with the same URL, title, marker elements and completion phrases
\* in their text, one with error keywords in its text and one without
DiffersOnlyInErrorKeywords(p, q) ==
  /\ p.url = q.url /\ p.title = q.title
  /\ p.markers = q.markers /\ p.locatorThrows = q.locatorThrows
  /\ p.body # Throws /\ q.body # Throws
  /\ CompletionSignalIn[p.body] = CompletionSignalIn[q.body]
  /\ ErrorKeywordIn[p.body] # ErrorKeywordIn[q.body]

\* C12: two pages that differ only in whether error keywords occur in their
\* text get the same isSuccess and the same shouldCleanup.
C12_VerdictIndependentOfErrorKeywords ==
  Detected =>
    \A q \in Pages :
      DiffersOnlyInErrorKeywords(detPage, q) =>
        /\ DetectionOf[q].isSuccess = detResult.isSuccess
        /\ DetectionOf[q].shouldCleanup = detResult.shouldCleanup

\* A page with an error keyword and a completion phrase was given "complete",
\* as is its twin without the error keyword.
C12_Witness ==
  /\ Detected
  /\ detPage.body # Throws /\ ErrorKeywordIn[detPage.body]
  /\ NoUrlPattern /\ detPage.markers = {}
  /\ detResult = CompleteResult
  /\ \E q \in Pages : DiffersOnlyInErrorKeywords(detPage, q)

(***************************************************************************)
(* Claims about the detection history (SpecHistory).                       *)
(***************************************************************************)
\* A step in which recordDetectionHistory has run
HistoryRecorded ==
  completionCheckCount' # completionCheckCount /\ ~DetectionThrows(detPage')

\* The record of the detection of the step, pushed on the history
HistoryPushed ==
  Append(pageStateHistory, [url |-> detPage'.url, title |-> detPage'.title,
                            completionResult |-> detResult'])

\* C37: the history never holds more than config.maxHistoryRecords entries,
\* and a verdict appended to a full history evicts the oldest entry.
C37_HistoryWithinCapacity ==
  Len(pageStateHistory) <= config.maxHistoryRecords

\* After recordDetectionHistory has run with a capacity of one or more the
\* history holds no more than the capacity, and it is the end of the history
\* before with the new record pushed: what is evicted is the oldest entries.
C37_OldestEvictedOnRecording ==
  [][(HistoryRecorded /\ config.maxHistoryRecords >= 1) =>
       /\ Len(pageStateHistory') = IF Len(HistoryPushed) > config.maxHistoryRecords
                                   THEN config.maxHistoryRecords
                                   ELSE Len(HistoryPushed)
       /\ \A i \in 1..Len(pageStateHistory') :
            pageStateHistory'[i] =
              HistoryPushed[Len(HistoryPushed) - Len(pageStateHistory') + i]]_vars

\* With a capacity of 0 recordDetectionHistory evicts nothing
C37_ZeroCapacityKeepsAll ==
  [][(HistoryRecorded /\ config.maxHistoryRecords = 0) =>
       pageStateHistory' = HistoryPushed]_vars

\* updateConfig leaves the history as it is
C37_UpdateConfigKeepsHistory ==
  [][config' # config => pageStateHistory' = pageStateHistory]_vars

\* A history of three entries under a capacity of two, left by updateConfig
C37_HistoryOverCapacity ==
  /\ config.maxHistoryRecords = 2
  /\ Len(pageStateHistory) = 3
  /\ completionCheckCount = 3

\* A full history of two entries whose oldest entry was evicted by the third
\* detection
C37_FullHistoryEvicted ==
  /\ config.maxHistoryRecords = 2
  /\ Len(pageStateHistory) = 2
  /\ completionCheckCount = 3
  /\ detResult = pageStateHistory[2].completionResult
  /\ detPage.url = pageStateHistory[2].url

(***************************************************************************)
(* Claims about the continuous answering loop (SpecLoop).                  *)
(***************************************************************************)
Returned == loopPc = "returned"

RoundStart == loopPc = "analysis"

\* The position of the call: it grows with every step the call takes.
LoopMeasure ==
  CASE loopPc = "idle" -> 0
    [] loopPc = "analysis" -> 7 * attempt + 1
    [] loopPc = "detect" -> 7 * attempt + 2
    [] loopPc = "answer" -> 7 * attempt + 3
    [] loopPc = "navigate" -> 7 * attempt + 4
    [] loopPc = "stability" -> 7 * attempt + 5
    [] loopPc = "sleep" -> 7 * attempt + 6
    [] loopPc = "returned" -> 7 * (maxContinuousAttempts + 2)

\* C3: whatever the rounds' outcomes are, the call starts at most
\* maxContinuousAttempts rounds, and every step takes it closer to its return:
\* the position of the call is bounded and grows with every step.
C3_ReturnsWithinMaxAttempts ==
  /\ [](loopPc # "idle" =>
          /\ roundsStarted <= maxContinuousAttempts
          /\ LoopMeasure <= 7 * (maxContinuousAttempts + 2))
  /\ [][loopPc' = "idle" \/ LoopMeasure' > LoopMeasure]_vars

\* The call used up its round budget and returned.
C3_Witness ==
  /\ Returned /\ exitCause = "round_budget"
  /\ maxContinuousAttempts = MaxAttempts
  /\ roundsStarted = maxContinuousAttempts

\* The termination condition a completionReason names: the detector's details
\* name the end signal, the counts of pages and questions name none.
ConditionNamedBy(reason) ==
  IF reason.text = CompleteResult.details THEN "completion" ELSE "none"

\* The finalStatus the contract gives each termination condition
StatusOfCondition(cause) ==
  CASE cause = "completion" -> "completed"
    [] cause = "failure_budget" -> "failed"
    [] cause = "round_budget" -> "partial_completed"

StoppedOnNavigationFailures ==
  /\ Returned /\ exitCause = "failure_budget"
  /\ streakNavOnly
  /\ continuousFailures = 8

NavigationFailed == loopPc = "navigate" /\ loopPc' # "stability" /\ loopPc' # "sleep"

\* C6: the counter grows by one in every round whose navigation fails, is zero
\* at the end of every round whose navigation succeeded, the loop aborts in
\* exactly the round in which the counter reaches maxContinuousFailures, and
\* at the start of every round 0 <= counter < maxContinuousFailures.
C6_FailureCounter ==
  /\ [](RoundStart => (0 <= continuousFailures /\ continuousFailures < maxContinuousFailures))
  /\ [](loopPc = "sleep" => continuousFailures = 0)
  /\ [][NavigationFailed =>
          /\ continuousFailures' = continuousFailures + 1
          /\ (exitCause' = "failure_budget") <=> (continuousFailures' = maxContinuousFailures)
          /\ (exitCause' = "failure_budget") => loopPc' = "returned"]_vars

\* A round starts with the counter one below the budget after an earlier round
\* had reset it.
C6_Witness ==
  /\ RoundStart
  /\ continuousFailures = maxContinuousFailures - 1
  /\ pagesProcessed > 0

\* C7: in a round in which the detector returns a complete verdict the call
\* returns finalStatus = "completed" in that round: the round ran page
\* analysis and detection only, and no later round was started.
C7_CompleteVerdictReturnsAtOnce ==
  IsCompleteVerdict(completionResult) =>
    /\ Returned
    /\ exitCause = "completion"
    /\ loopResult.finalStatus = "completed"
    /\ roundTrace = <<"analysis", "detect">>
    /\ roundsStarted = attempt

\* A complete verdict on a page that still had unanswered questions
C7_Witness ==
  /\ IsCompleteVerdict(completionResult)
  /\ pageState.hasQuestions /\ pageState.hasUnAnsweredQuestions
  /\ attempt > 1
  /\ Returned

\* C8, as stated: every exception raised inside a round is counted toward the
\* failure budget, so a round in which a step raised one never ends as a
\* successful round.
C8_EveryExceptionCounted ==
  loopPc = "sleep" => ~absorbed

\* C8, amended: no exception propagates and the call always returns a result;
\* a failed navigation and an exception that reaches the round's catch are
\* counted toward the failure budget, while an exception raised in page
\* analysis, detection, answering or the stability wait is caught by that step
\* and is not counted.
C8_ExceptionsCaughtNotAllCounted ==
  /\ [](Returned =>
          /\ loopResult.finalStatus \in {"completed", "partial_completed", "failed"}
          /\ loopResult.totalPagesProcessed = pagesProcessed
          /\ loopResult.totalQuestionsAnswered = totalQuestionsAnswered)
  /\ [][(absorbed' /\ ~absorbed) => continuousFailures' <= continuousFailures]_vars
  /\ [][(streakNavOnly /\ ~streakNavOnly') =>
          continuousFailures' = continuousFailures + 1]_vars

\* A round in which a step caught an exception ended as a successful round.
C8_Witness ==
  /\ loopPc = "sleep"
  /\ absorbed
  /\ continuousFailures = 0

\* What executeContinuousAnswering returns for a run that failed with no
\* page processed and no question answered
FailedWithoutProgress == FinalResult(0, 0)

\* C29: the status of a returned run is completed, partial_completed or
\* failed, and a run that ended partial_completed differs from a run that
\* failed without progress both in the value executeContinuousAnswering
\* returns and in the AnsweringResult executeQuestionnaireAnswering builds
\* from it.
C29_PartialDistinctFromFailed ==
  Returned =>
    /\ loopResult.finalStatus \in {"completed", "partial_completed", "failed"}
    /\ loopResult.finalStatus = "partial_completed" =>
         /\ loopResult # FailedWithoutProgress
         /\ AnsweringResult(loopResult) # AnsweringResult(FailedWithoutProgress)

\* The part about the value executeContinuousAnswering returns
C29_LoopResultTellsStatus ==
  Returned =>
    /\ loopResult.finalStatus \in {"completed", "partial_completed", "failed"}
    /\ loopResult.finalStatus = "partial_completed" => loopResult # FailedWithoutProgress

\* A run fails without progress
C29_FailedWithoutProgressHappens ==
  ~(Returned /\ loopResult = FailedWithoutProgress)

(***************************************************************************)
(* Claims about the navigation (SpecNavigation).                           *)
(***************************************************************************)
\* The buttons in the order of their priority
Priority(button) ==
  CASE button = "submit" -> 1
    [] button = "next" -> 2
    [] button = "continue" -> 3
    [] button = "search" -> 4

\* The page offers the button; a search is always possible
Present(navigationOptions, button) ==
  CASE button = "submit" -> navigationOptions.hasSubmitButton
    [] button = "next" -> navigationOptions.hasNextButton
    [] button = "continue" -> navigationOptions.hasContinueButton
    [] button = "search" -> TRUE

\* C34: performIntelligentNavigation issues one act, for the button of the
\* highest priority the page offers (submit, then next, then continue, then
\* the search); no act is issued for a button while a button of higher
\* priority is present, and the result of an act that resolved names the
\* same button.
C34_NavigationByPriority ==
  navigated.navigated =>
    /\ Len(navigated.acts) = 1
    /\ Present(navigated.navigationOptions, navigated.acts[1].button)
    /\ \A button \in {"submit", "next", "continue", "search"} :
         Priority(button) < Priority(navigated.acts[1].button)
           => ~Present(navigated.navigationOptions, button)
    /\ navigated.result.success =>
         navigated.result.action =
           (CASE navigated.acts[1].button = "submit" -> "click submit"
              [] navigated.acts[1].button = "next" -> "click next"
              [] navigated.acts[1].button = "continue" -> "click continue"
              [] navigated.acts[1].button = "search" -> "search and click")

\* A page with all three buttons: submit is clicked, by its own text
C34_Witness ==
  /\ navigated.navigated
  /\ navigated.navigationOptions.hasSubmitButton
  /\ navigated.navigationOptions.hasNextButton
  /\ navigated.navigationOptions.hasContinueButton
  /\ navigated.acts = <<[button |-> "submit", text |-> TextSubmit]>>
  /\ navigated.result.success

\* A page with a next and a continue button and no submit button
C34_WitnessNext ==
  /\ navigated.navigated
  /\ ~navigated.navigationOptions.hasSubmitButton
  /\ navigated.navigationOptions.hasNextButton
  /\ navigated.navigationOptions.hasContinueButton
  /\ navigated.acts[1].button = "next"

(***************************************************************************)
(* Claims about the monitor timers (SpecTimers).                           *)
(***************************************************************************)
\* The step is a timer callback that makes a status check
StatusCheckStep ==
  /\ timerFirings' = timerFirings + 1
  /\ timerLast'.statusCheck

\* C39: at most one interval timer of the sessionId is live at any time (a
\* second startMonitoring leaves no earlier timer running), and after
\* stopMonitoring or the cleanup no timer makes another status check until
\* monitoring is started again.
C39_AtMostOneLiveTimer ==
  /\ [](Cardinality(timersLive) <= 1)
  /\ [][stoppedSince => ~StatusCheckStep]_vars

\* What holds: one timer at most while startMonitoring was called once, and
\* no status check after a stop or the cleanup until the next startMonitoring
C39_OneTimerWhenStartedOnce ==
  /\ [](timerStarts <= 1 => Cardinality(timersLive) <= 1)
  /\ [][stoppedSince => ~StatusCheckStep]_vars

\* A timer that neither the MonitoringSession stored nor sessionData refers
\* to any more is cleared by nothing but a callback of its own
C39_EarlierTimerNeverCleared ==
  [][\A timer \in timersLive :
       (/\ timer # sessionsEntry
        /\ timer # dataInterval
        /\ ~(timerLast'.op = "performWindowCheck" /\ timerLast'.timer = timer
               /\ timerFirings' # timerFirings))
         => timer \in timersLive']_vars

\* After a second startMonitoring and a stopMonitoring the first timer is
\* still live
C39_TimerLiveAfterStop ==
  ~(stoppedSince /\ timerLast.op = "stopMonitoring" /\ timersLive # {})

\* The first timer, left running by a stop, makes a status check after a
\* third startMonitoring
C39_EarlierTimerChecksAgain ==
  ~(timerLast.statusCheck /\ timerLast.timer = 1 /\ sessionsEntry = 3
      /\ 2 \in sessionStopFlag)

(***************************************************************************)
(* Claims about sessions (SpecSession).                                    *)
(***************************************************************************)
\* executeAnswering is over and no stopSession call is in progress
SessionEnded(sessionId) == execPc[sessionId] = "done" /\ stopPc[sessionId] = "idle"

\* The 'cleaned' events recorded for a session
CleanedEvents(sessionId) ==
  Cardinality({i \in 1..Len(events[sessionId]) : events[sessionId][i] = "cleaned"})

\* Every stopSession call on the session was made while it was running, and
\* there was at most one.
StoppedOnlyWhileRunning(sessionId) ==
  /\ stopCalls[sessionId] <= 1
  /\ ~stopsOutsideRun[sessionId]

\* C1: however a session ends (normal completion, failure of a step, a
\* stopSession call while executeAnswering runs), cleanupSession was performed
\* exactly once for it: one call, one 'cleaned' event, and its proxy released.
C1_CleanupExactlyOnce ==
  \A sessionId \in SessionIds :
    (SessionEnded(sessionId) /\ StoppedOnlyWhileRunning(sessionId)) =>
      /\ cleanupCalls[sessionId] = 1
      /\ CleanedEvents(sessionId) = 1
      /\ sessionId \notin allocatedProxies

\* A cleanupSession call for the session has run to its end
CleanupRan(sessionId) == CleanedEvents(sessionId) >= 1

\* A browser created for the session is still registered or still running
BrowserRemains(sessionId) ==
  \/ sessionId \in browsers
  \/ ProfileKey(sessionId) \in activeBrowsers
  \/ SessionKey(sessionId) \in activeBrowsers

\* C31: when a session has ended and its cleanup has run, the AdsPower
\* browser launched for the session is torn down and removed from the
\* active-browser table: no browser created for the session remains.
C31_BrowserTornDownOnCleanup ==
  \A sessionId \in SessionIds :
    (SessionEnded(sessionId) /\ CleanupRan(sessionId)) => ~BrowserRemains(sessionId)

\* What the code does instead: cleanupBrowser looks the session id up in a
\* table filled under profile ids, finds nothing, and so no step ever stops a
\* browser or removes an entry.
C31_BrowsersNeverRemoved ==
  [][browsers \subseteq browsers' /\ activeBrowsers \subseteq activeBrowsers']_vars

\* A session with a browser ends, cleaned up, with the browser still there
C31_BrowserLeftBehind ==
  \A sessionId \in SessionIds :
    ~(SessionEnded(sessionId) /\ CleanupRan(sessionId) /\ sessionId \in browsers)

\* A terminal status
Terminal(status) == status \in {"completed", "failed"}

\* C38: the terminal status of a session is absorbing: a session whose
\* status is 'completed' or 'failed' (a stopped session is 'failed') never
\* changes status again, even when executeAnswering finishes later.
C38_TerminalStatusAbsorbing ==
  [][\A sessionId \in SessionIds :
       Terminal(sessStatus[sessionId]) => sessStatus'[sessionId] = sessStatus[sessionId]]_vars

\* What holds: a terminal status changes only on a session that stopSession
\* was called on.
C38_AbsorbingUnlessStopped ==
  [][\A sessionId \in SessionIds :
       (Terminal(sessStatus[sessionId]) /\ stopCalls'[sessionId] = 0)
         => sessStatus'[sessionId] = sessStatus[sessionId]]_vars

\* A session stopped while running ends 'completed'
C38_StoppedEndsCompleted ==
  \A sessionId \in SessionIds :
    ~(SessionEnded(sessionId) /\ stopCalls[sessionId] = 1 /\ ~stopsOutsideRun[sessionId]
        /\ sessStatus[sessionId] = "completed")

(***************************************************************************)
(* Claims about the proxy manager (SpecProxy).                             *)
(***************************************************************************)
\* No two entries of the table have the same session
OneLeasePerSession ==
  \A i, j \in 1..Len(leaseTable) : leaseTable[i].key = leaseTable[j].key => i = j

\* The leases of two sessions, in the table or as allocateProxy returned
\* them, have different proxy session ids
LeasesDiffer ==
  /\ \A i, j \in 1..Len(leaseTable) :
       i # j => leaseTable[i].value.sessionId # leaseTable[j].value.sessionId
  /\ \A s1, s2 \in SessionIds :
       (s1 # s2 /\ leaseHeld[s1] # NoLease /\ leaseHeld[s2] # NoLease)
         => leaseHeld[s1].sessionId # leaseHeld[s2].sessionId

\* The lease of a session in the table changes or goes only in a
\* releaseProxy call for the session
BoundUntilReleased ==
  \A s \in SessionIds :
    (mapHas(leaseTable, s) /\ mapGet(leaseTable', s) # mapGet(leaseTable, s))
      => proxyLast' = [op |-> "releaseProxy", sessionId |-> s]

PollsDone == checking = 0 /\ cleaning = 0

\* C2: once the window is detected closed, executeComprehensiveCleanup is
\* invoked exactly once for the session, whatever the interleaving of the
\* polls, and the session is out of the active set when the polls are over.
C2_CleanupInvokedExactlyOnce ==
  (closedDetected /\ enableAutoCleanup) =>
    /\ cleanupInvocations = 1
    /\ PollsDone => ~monActive

\* A poll's status request has just ended
PollResolves == checking' = checking - 1

IsWindowClosedStatus(status) == status \in {"window_closed", "cleanup_in_progress"}

\* C16: for a poll of a session in Monitoring: an active status keeps it in
\* Monitoring and resets errorCount; an inactive or not-found status moves it
\* to WindowClosed; a request error adds one to errorCount and moves it to
\* WindowClosed exactly when errorCount has reached maxRetries.
C16_PollRuleStep ==
  (PollResolves /\ monStatus = "monitoring") =>
     /\ lastAnswer' = "active" => (monStatus' = "monitoring" /\ errorCount' = 0)
     /\ lastAnswer' = "inactive" => IsWindowClosedStatus(monStatus')
     /\ lastAnswer' = "request_error" =>
          /\ errorCount' = errorCount + 1
          /\ IsWindowClosedStatus(monStatus') <=> (errorCount' >= maxRetries)

C16_PollRule == [][C16_PollRuleStep]_vars

\* The edges the status of a monitoring session may take
StatusEdges ==
  {<<"none", "monitoring">>, <<"monitoring", "window_closed">>,
   <<"window_closed", "cleanup_in_progress">>,
   <<"cleanup_in_progress", "cleanup_completed">>,
   <<"cleanup_in_progress", "error">>, <<"monitoring", "idle">>}

\* status = WINDOW_CLOSED and, in handleWindowClosed, CLEANUP_IN_PROGRESS are
\* assigned in one step
ThroughWindowClosed ==
  /\ cleanupInvocations' = cleanupInvocations + 1
  /\ monStatus = "monitoring"
  /\ monStatus' = "cleanup_in_progress"

\* C17: the status changes only along Monitoring -> WindowClosed ->
\* CleanupInProgress -> CleanupCompleted or Error, and Monitoring -> Idle.
C17_StatusEdgesStep ==
  \/ monStatus' = monStatus
  \/ <<monStatus, monStatus'>> \in StatusEdges
  \/ ThroughWindowClosed

C17_StatusEdges == [][C17_StatusEdgesStep]_vars

(***************************************************************************)
(* Claims about the cleanup manager (SpecCleanup).                         *)
(***************************************************************************)
CleanupReturned(s) == clnPc[s] = "returned"

\* The session's second cleanup has returned, and no step of its cleanups failed
SecondCleanupOfCleaned(s) == CleanupReturned(s) /\ callsMade[s] = 2 /\ clnFailed[s] = {}

\* C13: a second executeComprehensiveCleanup on resources that a first call
\* cleaned returns success and makes no call at all: no timer cancel, no
\* engine pause, no context close, no memory save or clear, no cleanupBrowser,
\* no releaseProxy.
C13_SecondCleanupIsNoOp ==
  \A s \in SessionIds :
     SecondCleanupOfCleaned(s) => (clnResult[s].success /\ clnEffects[s] = {})

\* The phase a step belongs to
PhaseOfStep(step) ==
  CASE step = "enginePause" -> "phase1"
    [] step = "contextClose" -> "phase2"
    [] step \in {"memorySave", "memoryClear"} -> "phase3"
    [] step = "cleanupBrowser" -> "phase4"
    [] step = "releaseProxy" -> "phase5"
    [] step = "resourcesClear" -> "phase6"

\* The session's first cleanup has returned and no other cleanup was started
FirstCleanupAlone(s) ==
  CleanupReturned(s) /\ callsMade[s] = 1 /\ \A o \in SessionIds \ {s} : callsMade[o] = 0

\* C14: executeComprehensiveCleanup returns a result after running its six
\* phases in the order 1..6, whatever fails; a step that failed inside a phase
\* is recorded in that phase's result (success false).
C14_SixPhasesInOrderFailuresRecorded ==
  \A s \in SessionIds :
     /\ phasesRun[s] = [i \in 1..Len(phasesRun[s]) |-> i]
     /\ CleanupReturned(s) => phasesRun[s] = <<1, 2, 3, 4, 5, 6>>
     /\ FirstCleanupAlone(s) =>
          \A step \in clnFailed[s] : ~cleanupResults[PhaseOfStep(step)].success

\* C15: when a step of a cleanup failed, the CleanupResult has success false
\* and its errors list contains the failure.
C15_FailedStepSurfacesInResult ==
  \A s \in SessionIds :
     (CleanupReturned(s) /\ callsMade[s] = 1 /\ clnFailed[s] # {}) =>
        (~clnResult[s].success /\ clnFailed[s] \subseteq clnResult[s].errors)

\* The value of currentPhase after the phase that precedes position pc
PhaseBefore(pc) ==
  CASE pc = "phase2" -> "STOP_MONITORING"
    [] pc = "phase3" -> "CLEANUP_STAGEHAND"
    [] pc = "phase4" -> "CLEANUP_MEMORY"
    [] pc = "phase5" -> "CLEANUP_ADSPOWER"
    [] pc = "phase6" -> "CLEANUP_PROXY"
    [] pc = "return" -> "CLEANUP_THREADS"

\* C19: the cleanups of two sessions on one manager do not mix: while a
\* session's cleanup is in progress the manager's current phase is that
\* cleanup's phase, and the details of the CleanupResult a session got hold
\* only phase results written by that session's cleanup.
C19_CleanupResultsPerSession ==
  \A s \in SessionIds :
     /\ (callsMade[s] = 1 /\ clnPc[s] \notin {"idle", "returned"}) =>
          currentPhase = PhaseBefore(clnPc[s])
     /\ (callsMade[s] = 1 /\ CleanupReturned(s)) =>
          \A k \in PhaseKeys : phaseWriter[k] = s

(***************************************************************************)
(* Claims about stopping a session while its loop runs (SpecStop).         *)
(***************************************************************************)
\* Phase 1 of the cleanup paused the engine after the loop had started a round
StoppedInLoop == isPaused /\ roundsAtPause >= 1

\* The next step of the cleanup of session s, whatever its step meets
CleanupStep(s) ==
  \/ \E closeThrows \in BOOLEAN : phase2CleanupStagehand(s, closeThrows)
  \/ \E failing \in {"none", "memorySave", "memoryClear"} : phase3CleanupMemory(s, failing)
  \/ \E cleanupBrowserThrows \in BOOLEAN : phase4CleanupAdsPower(s, cleanupBrowserThrows)
  \/ \E releaseProxyThrows \in BOOLEAN : phase5CleanupProxy(s, releaseProxyThrows)
  \/ \E clearThrows \in BOOLEAN : phase6CleanupThreads(s, clearThrows)
  \/ CleanupReturn(s)

\* C18: once phase 1 of the cleanup has paused the engine, the loop starts no
\* round beyond the one in flight; and the cleanup can always take its next
\* step, wherever the loop stands.
C18_StopEndsLoopAtRoundBoundary ==
  /\ StoppedInLoop => roundsStarted = roundsAtPause
  /\ clnPc[EngineSession] \notin {"idle", "returned"} => ENABLED CleanupStep(EngineSession)

\* The step closes the stagehand context of the session
ClosesContextOf(s) == "contextClose" \in clnEffects'[s] \ clnEffects[s]

\* C35: cleanup phase 2 never closes a context that belongs to the AdsPower
\* browser: context.close() is called only on a context of Stagehand's own.
C35_NeverClosesAdsPowerContext ==
  [][\A s \in SessionIds :
       ClosesContextOf(s) => ~StagehandContext(sessionData[s].stagehand).adsPower]_vars

\* What the code does: it closes the context exactly when the URL of its
\* first page holds chrome:// or about:, whoever the context belongs to
C35_ClosesByFirstPageUrl ==
  [][\A s \in SessionIds :
       (clnPc[s] = "phase2" /\ clnPc'[s] = "phase3" /\ sessionData[s].stagehand # "none")
         => (ClosesContextOf(s)
               <=> StagehandContext(sessionData[s].stagehand).firstPageUrl = UrlAboutBlank)]_vars

\* The context of the AdsPower browser with the questionnaire as its first
\* page is left open
C35_AdsPowerPageKept ==
  [][\A s \in SessionIds :
       ClosesContextOf(s) => sessionData[s].stagehand # "adsPowerPage"]_vars

\* The fields of SessionResourceData that hold a resource
ResourceFields ==
  {"monitorInterval", "superEngine", "stagehand", "memoryManager",
   "digitalPersonMemoryManager", "adsPowerManager", "profileId", "browserInfo",
   "proxyManager", "proxyInfo", "additionalResources"}

\* The fields the phases assign undefined to
ClearedFields ==
  {"monitorInterval", "superEngine", "stagehand", "memoryManager",
   "digitalPersonMemoryManager", "browserInfo", "proxyInfo", "additionalResources"}

\* The field is undefined
IsUndefined(sd, field) == sd[field] = BareResources[field]

\* C36: after executeComprehensiveCleanup has returned, every field of the
\* SessionResourceData that held a resource is undefined: no field refers to
\* a released resource.
C36_EveryFieldUndefinedAfterCleanup ==
  \A s \in SessionIds :
    CleanupReturned(s) =>
      \A field \in ResourceFields : IsUndefined(sessionData[s], field)

\* What the code does: the fields the phases assign to are undefined after
\* the cleanup, additionalResources unless its clear() threw; the browser
\* manager, the profile id and the proxy manager are never assigned to
C36_AssignedFieldsUndefined ==
  \A s \in SessionIds :
    CleanupReturned(s) =>
      /\ \A field \in ClearedFields \ {"additionalResources"} :
            IsUndefined(sessionData[s], field)
      /\ "resourcesClear" \notin clnFailed[s]
            => IsUndefined(sessionData[s], "additionalResources")

C36_HandlesNeverAssigned ==
  [][\A s \in SessionIds : \A field \in ResourceFields \ ClearedFields :
       sessionData'[s][field] = sessionData[s][field]]_vars

(***************************************************************************)
(* Claims about the session memory (SpecMemory).                           *)
(***************************************************************************)
\* The summary shows the question with the answer text
VisibleIn(summary, questionId, answerText) ==
  \E index \in DOMAIN summary :
     /\ summary[index].questionId = questionId
     /\ summary[index].answerText = answerText

\* The latest lookup was made in the round after the round of the write it
\* found, and nobody but the loop wrote the memory in between
LookupFollowsWrite ==
  /\ lookup.written.round >= 1
  /\ lookup.round = lookup.written.round + 1
  /\ ~lookup.written.disturbed

\* C20: the answers recordQuestionAnswer stored in round N are in the memory
\* summary that round N+1 reads, when only the loop wrote the memory between
\* the two rounds.
C20_WriteVisibleInNextRound ==
  LookupFollowsWrite =>
     \A questionId \in lookup.written.ids :
        VisibleIn(lookup.summary, questionId, lookup.written.answers[questionId])

C20_Witness ==
  /\ LookupFollowsWrite
  /\ lookup.round = 2
  /\ lookup.written.ids # {}
  /\ Len(memory.questionOrder) = 2

\* The questions the step answered, by the count the loop adds
AnsweredInStep == totalQuestionsAnswered' - totalQuestionsAnswered

\* A step of answerQuestionsIntelligently, with a memory manager, that
\* answered questions
AnsweringRound ==
  /\ loopPc = "answer" /\ loopPc' = "navigate"
  /\ memoryManager
  /\ AnsweredInStep > 0

\* C32: in every round that answers questions, the loop asks the memory for
\* a suggestion for each question of the page before the oracle answers, and
\* records the answer of every answered question into the memory.
C32_SuggestThenRecordEveryAnswer ==
  [][AnsweringRound =>
       /\ lookup'.round = attempt
       /\ Len(lookup'.suggestions) = pageState.questionCount
       /\ written'.round = attempt
       /\ Cardinality(written'.ids) = AnsweredInStep]_vars

\* The recording part of C32 alone
C32_EveryAnswerRecorded ==
  [][AnsweringRound =>
       /\ written'.round = attempt
       /\ Cardinality(written'.ids) = AnsweredInStep]_vars

\* What the code does: it reads the summary before act and puts its last
\* three entries into the prompt, and it records either one answer per
\* question it counts as answered or, when page.url() rejects, none
C32_SummaryReadAnswersRecordedOrNone ==
  [][AnsweringRound =>
       /\ lookup'.round = attempt
       /\ lookup'.summary = getMemorySummary(memory)
       /\ lookup'.recentAnswers = slice(lookup'.summary, 3)
       /\ \/ written' = written
          \/ /\ written'.round = attempt
             /\ Cardinality(written'.ids) = AnsweredInStep]_vars

(***************************************************************************)
(* Claims about the memory manager's operations (SpecStore).               *)
(***************************************************************************)
\* A memory as the constructor and the record calls leave it: every field
\* there, questionOrder listing each stored id once, both counters the
\* number of stored ids
WellFormed(mem) ==
  /\ Has(mem, "questions") /\ Has(mem, "questionOrder")
  /\ SetOf(mem.questionOrder) = DOMAIN mem.questions
  /\ Len(mem.questionOrder) = Cardinality(DOMAIN mem.questions)
  /\ mem.totalQuestions = Cardinality(DOMAIN mem.questions)
  /\ mem.completedQuestions = Cardinality(DOMAIN mem.questions)

\* The stored ids of the questions with this page URL and this normalized text
SameFingerprint(mem, question) ==
  {id \in DOMAIN mem.questions :
     /\ mem.questions[id].pageUrl = question.pageUrl
     /\ normalizeQuestionText(mem.questions[id].questionText)
          = normalizeQuestionText(question.questionText)}

RecordedOnWellFormed ==
  /\ storeLast.op = "recordQuestionAnswer"
  /\ WellFormed(storeLast.before)

\* The record stored for the question of the last call holds the call's answer
AnswerStored ==
  \E id \in SameFingerprint(store, storeLast.input.question) :
    /\ store.questions[id].answer = storeLast.input.answer
    /\ store.questions[id].answerText = answerTextOf(storeLast.input.answer)
    /\ store.questions[id].questionText = storeLast.input.question.questionText

\* C21: recordQuestionAnswer on a well-formed memory.  For a question whose
\* (pageUrl, normalized text) is not stored yet, the call appends one id to
\* questionOrder and adds one to totalQuestions and to completedQuestions.
\* For a question whose (pageUrl, normalized text) is stored already, it
\* leaves questionOrder and both counters as they were.  Either way the
\* stored record then holds the answer of this call.
C21_RecordIdempotentPerFingerprint ==
  RecordedOnWellFormed =>
    LET before == storeLast.before
    IN  /\ ~storeLast.result.threw
        /\ AnswerStored
        /\ IF SameFingerprint(before, storeLast.input.question) = {}
           THEN /\ Len(store.questionOrder) = Len(before.questionOrder) + 1
                /\ SubSeq(store.questionOrder, 1, Len(before.questionOrder))
                     = before.questionOrder
                /\ store.questionOrder[Len(store.questionOrder)] = storeLast.result.value
                /\ store.totalQuestions = before.totalQuestions + 1
                /\ store.completedQuestions = before.completedQuestions + 1
           ELSE /\ store.questionOrder = before.questionOrder
                /\ store.totalQuestions = before.totalQuestions
                /\ store.completedQuestions = before.completedQuestions
                /\ DOMAIN store.questions = DOMAIN before.questions

\* A second call for a stored question, written in other case and white
\* space, with another answer than the stored one
C21_Witness ==
  /\ RecordedOnWellFormed
  /\ \E id \in SameFingerprint(storeLast.before, storeLast.input.question) :
       /\ storeLast.before.questions[id].answer # storeLast.input.answer
       /\ storeLast.before.questions[id].questionText
            # storeLast.input.question.questionText
  /\ AnswerStored

NoDuplicates(array) == Cardinality(SetOf(array)) = Len(array)

\* C22: in every state the record, advance, import and cleanup calls reach,
\* questionOrder holds no id twice and completedQuestions is the number of
\* distinct ids stored in questions.
C22_OrderDistinctCompletedCounted ==
  /\ Has(store, "questions")
  /\ Has(store, "questionOrder")
  /\ NoDuplicates(store.questionOrder)
  /\ store.completedQuestions = Cardinality(DOMAIN store.questions)

\* The same of the states no importMemory call has led to
C22_HoldsUntilImport ==
  (storeLast.op # "importMemory" /\ WellFormed(storeLast.before))
    => C22_OrderDistinctCompletedCounted

\* The score of a stored record and a question looked up
ScoreOf(questionRecord, question) ==
  calculateQuestionSimilarity(
    extractQuestionFeatures(question.questionText, question.options),
    extractQuestionFeatures(questionRecord.questionText, questionRecord.options))

\* The last call was a lookup that returned
LookedUp ==
  /\ storeLast.op \in {"findSimilarQuestion", "getConsistentAnswerSuggestion"}
  /\ ~storeLast.result.threw

\* The stored record the lookup returned, or the one its suggestion refers to
RecordReturned ==
  IF storeLast.op = "findSimilarQuestion" THEN storeLast.result.value
  ELSE store.questions[storeLast.result.value.referenceQuestionId]

\* C24: a record findSimilarQuestion returns, and the record a suggestion of
\* getConsistentAnswerSuggestion is taken from, is a stored record whose
\* score with the question looked up is not below the threshold; when no
\* stored record scores above the threshold, the lookup returns null.
C24_NoMatchBelowThreshold ==
  LookedUp =>
    LET question == storeLast.input.question
        similarityThreshold == storeLast.input.similarityThreshold
    IN  /\ storeLast.result.value # Null =>
             /\ \E id \in DOMAIN store.questions : store.questions[id] = RecordReturned
             /\ ~Greater(similarityThreshold, ScoreOf(RecordReturned, question))
             /\ storeLast.op = "getConsistentAnswerSuggestion" =>
                  /\ storeLast.result.value.suggestedAnswer = RecordReturned.answer
                  /\ storeLast.result.value.suggestedAnswerText = RecordReturned.answerText
        /\ (\A id \in DOMAIN store.questions :
              ~Greater(ScoreOf(store.questions[id], question), similarityThreshold))
             => storeLast.result.value = Null

\* The orders a set of ids can be stored in
StorageOrders(ids) == {order \in [1..Cardinality(ids) -> ids] : SetOf(order) = ids}

\* findSimilarQuestion on the same records stored in another order
FoundInOrder(order) ==
  BestMatch(store, order, 1,
            extractQuestionFeatures(storeLast.input.question.questionText,
                                    storeLast.input.question.options),
            storeLast.input.similarityThreshold,
            [bestMatch |-> Null, bestSimilarity |-> Ratio(0, 1)])

\* The stored records scoring above the threshold of the lookup
AboveThreshold ==
  {id \in DOMAIN store.questions :
     Greater(ScoreOf(store.questions[id], storeLast.input.question),
             storeLast.input.similarityThreshold)}

\* The last call was a findSimilarQuestion that returned, on a memory as
\* the record calls build it, with several records above the threshold
SeveralAboveThreshold ==
  /\ storeLast.op = "findSimilarQuestion"
  /\ ~storeLast.result.threw
  /\ WellFormed(store)
  /\ Cardinality(AboveThreshold) >= 2

\* No stored record scores above the record
Highest(questionRecord) ==
  \A id \in DOMAIN store.questions :
     ~Greater(ScoreOf(store.questions[id], storeLast.input.question),
              ScoreOf(questionRecord, storeLast.input.question))

\* C33 as stated: when several stored records score above the threshold,
\* findSimilarQuestion returns the record with the highest score, and the
\* same record whatever the order the records were stored in.
C33_HighestWhateverTheOrder ==
  SeveralAboveThreshold =>
    /\ storeLast.result.value # Null
    /\ Highest(storeLast.result.value)
    /\ \A order \in StorageOrders(DOMAIN store.questions) :
         FoundInOrder(order) = storeLast.result.value

\* C33: when several stored records score above the threshold,
\* findSimilarQuestion returns a stored record with the highest score, the
\* one stored first among those that share it; the score of the record
\* returned does not depend on the order the records were stored in.
C33_HighestFirstStoredOnTie ==
  SeveralAboveThreshold =>
    /\ storeLast.result.value # Null
    /\ \E id \in DOMAIN store.questions : store.questions[id] = storeLast.result.value
    /\ Highest(storeLast.result.value)
    /\ \A id \in DOMAIN store.questions :
         (Highest(store.questions[id]) /\ store.questions[id] # storeLast.result.value)
           => indexOf(store.questionOrder, storeLast.result.value.questionId)
                < indexOf(store.questionOrder, id)
    /\ \A order \in StorageOrders(DOMAIN store.questions) :
         /\ FoundInOrder(order) # Null
         /\ ScoreOf(FoundInOrder(order), storeLast.input.question)
              = ScoreOf(storeLast.result.value, storeLast.input.question)

\* Two records above the threshold with different scores, the one stored
\* last is returned
C33_Witness ==
  /\ SeveralAboveThreshold
  /\ Len(store.questionOrder) = 2
  /\ storeLast.result.value.questionId = store.questionOrder[2]
  /\ Greater(ScoreOf(store.questions[store.questionOrder[2]], storeLast.input.question),
             ScoreOf(store.questions[store.questionOrder[1]], storeLast.input.question))

\* Two records share the highest score: the one stored first is returned
C33_WitnessTie ==
  /\ SeveralAboveThreshold
  /\ Len(store.questionOrder) = 2
  /\ storeLast.result.value.questionId = store.questionOrder[1]
  /\ Highest(store.questions[store.questionOrder[2]])

\* A suggestion taken from one stored record while another stored record
\* scores below the threshold
C24_Witness ==
  /\ LookedUp
  /\ storeLast.op = "getConsistentAnswerSuggestion"
  /\ storeLast.result.value # Null
  /\ RecordReturned.questionText # storeLast.input.question.questionText
  /\ \E id \in DOMAIN store.questions :
       Greater(DefaultSimilarityThreshold,
               ScoreOf(store.questions[id], storeLast.input.question))

\* A lookup that returns null although a stored record scores above 0.7
C24_WitnessNone ==
  /\ LookedUp
  /\ storeLast.result.value = Null
  /\ storeLast.input.similarityThreshold = DefaultSimilarityThreshold
  /\ \E id \in DOMAIN store.questions :
       Greater(ScoreOf(store.questions[id], storeLast.input.question), Ratio(7, 10))

\* The last call imported the value the last exportMemory returned, and the
\* memory was not written between that export and the import
ImportedTheExport ==
  /\ storeLast.op = "importMemory"
  /\ storeLast.input.from = "export"
  /\ storeLast.input.data = exportMemory(exported.taken)

\* C27: importMemory of the value exportMemory returned leaves the manager
\* with a memory equal to the exported one: the same questions,
\* questionOrder, currentPosition, totalQuestions and completedQuestions.
C27_ExportImportRoundTrip ==
  ImportedTheExport => store = exported.taken

\* The round trip of a memory with a question and an advanced position
C27_Witness ==
  /\ ImportedTheExport
  /\ WellFormed(exported.taken)
  /\ exported.taken.currentPosition + Len(exported.taken.questionOrder) > 0
  /\ store = exported.taken

\* The same for an exported value imported at any later time
C27_ExportIsSnapshot ==
  (storeLast.op = "importMemory" /\ storeLast.input.from = "export")
    => store = exported.taken

\* C40: the value exportMemory returned is a snapshot: whatever
\* recordQuestionAnswer, advancePosition or cleanupMemory calls follow the
\* export, the exported value stays as it was, and importing it restores the
\* memory as it was at export time.
C40_ExportedValueIsSnapshot ==
  /\ exported.made => exported.memory = exported.taken
  /\ (storeLast.op = "importMemory" /\ storeLast.input.from = "export")
       => store = exported.taken

\* What the code does: the exported value holds the manager's memory object,
\* so as long as no import has replaced that object the exported memory is
\* the manager's memory, writes after the export included
C40_ExportedValueIsTheMemory ==
  (exported.made /\ exported.shared) => exported.memory = store

\* A cleanupMemory after the export has emptied the exported value
C40_ExportEmptiedByCleanup ==
  ~(/\ exported.made
    /\ storeLast.op = "cleanupMemory"
    /\ exported.taken.questionOrder # <<>>
    /\ exported.memory = EmptyMemory)

\* The ids an imported value names
NamedBy(memoryData) ==
  IF memoryData # Null /\ Has(memoryData, "memory") /\ Has(memoryData.memory, "questions")
  THEN DOMAIN memoryData.memory.questions
  ELSE {}

StoredIds(mem) == IF Has(mem, "questions") THEN DOMAIN mem.questions ELSE {}

\* C28: importMemory with a corrupt value does not throw and leaves the
\* records of the fingerprints it does not name as they were, and the
\* recordQuestionAnswer, findSimilarQuestion and getProgressInfo calls made
\* afterwards do not throw.
C28_CorruptImportHarmless ==
  /\ (storeLast.op = "importMemory" /\ storeLast.input.data \in CorruptValues) =>
       /\ ~storeLast.result.threw
       /\ \A id \in StoredIds(storeLast.before) \ NamedBy(storeLast.input.data) :
            /\ id \in StoredIds(store)
            /\ store.questions[id] = storeLast.before.questions[id]
  /\ storeLast.op \in {"recordQuestionAnswer", "findSimilarQuestion", "getProgressInfo"}
       => ~storeLast.result.threw

\* importMemory itself never throws
C28_ImportReturns ==
  storeLast.op = "importMemory" => ~storeLast.result.threw

\* A call on a memory that has all its fields does not throw
C28_NoThrowOnWholeMemory ==
  (Has(storeLast.before, "questions") /\ Has(storeLast.before, "questionOrder"))
    => ~storeLast.result.threw

(***************************************************************************)
(* Claims about fingerprints and scores (SpecFeatures).                    *)
(***************************************************************************)
RECURSIVE WordsFrom(_, _)
\* The runs of characters other than white space in s, in lower case; word
\* is the run being read
WordsFrom(s, word) ==
  IF s = <<>> THEN (IF word = <<>> THEN <<>> ELSE <<word>>)
  ELSE IF s[1] \in {" ", "\t", "\n"}
  THEN (IF word = <<>> THEN <<>> ELSE <<word>>) \o WordsFrom(Tail(s), <<>>)
  ELSE WordsFrom(Tail(s), Append(word, LowerChar(s[1])))

\* The two texts differ at most in letter case and in the amount of white
\* space where there is some
DifferInCaseAndSpaceOnly(text1, text2) == WordsFrom(text1, <<>>) = WordsFrom(text2, <<>>)

\* C23: generateQuestionId returns the same id when called again with the
\* same text and page URL, and the same id for two texts on one page URL
\* that differ only in letter case or in the amount of white space.
C23_FingerprintStable ==
  fingerprints.computed =>
    /\ fingerprints.id1 = fingerprints.again1
    /\ DifferInCaseAndSpaceOnly(pair.text1, pair.text2)
         => fingerprints.id1 = fingerprints.id2

\* "a \tA" and "A a": other case, a longer run of white space
C23_Witness ==
  /\ fingerprints.computed
  /\ pair.text1 = <<"a", " ", "\t", "A">>
  /\ pair.text2 = <<"A", " ", "a">>
  /\ fingerprints.id1 = fingerprints.id2

\* C25: the score calculateQuestionSimilarity computes for a question and a
\* copy of it, with the same text and the same options, is 1.0, whatever the
\* text and the options are.
C25_IdenticalCopyScoresOne ==
  score.computed => score.copy.num = score.copy.den

\* The score of a question and its copy when the text has a word of more
\* than two characters and there are options
C25_OneWithKeywordsAndOptions ==
  (/\ score.computed
   /\ extractQuestionFeatures(pair.questionText, pair.options).keywords # {}
   /\ pair.options # <<>>)
    => score.copy.num = score.copy.den

(***************************************************************************)
(* Claims about the questions about coffee (SpecCoffee).                   *)
(***************************************************************************)
LikeCoffeeId == generateQuestionId(TextLikeCoffee, UrlQuestion)

\* "Do you like coffee?" with the options Yes and No is stored with the
\* answer Yes, "Do you enjoy coffee?" is not stored, and the last call asked
\* for a suggestion for "Do you enjoy coffee?" with the same options
EnjoyLookedUpAfterLike ==
  /\ storeLast.op = "getConsistentAnswerSuggestion"
  /\ storeLast.input.question = Question(TextEnjoyCoffee, OptionsYesNo, UrlQuestion)
  /\ LikeCoffeeId \in DOMAIN store.questions
  /\ store.questions[LikeCoffeeId].questionText = TextLikeCoffee
  /\ store.questions[LikeCoffeeId].options = OptionsYesNo
  /\ store.questions[LikeCoffeeId].answer = "Yes"
  /\ generateQuestionId(TextEnjoyCoffee, UrlQuestion) \notin DOMAIN store.questions

\* C26: after "Do you like coffee?" with options Yes and No was recorded
\* with the answer Yes, the lookup for "Do you enjoy coffee?" with the same
\* options scores at least 0.8 and returns the suggestion Yes with the id of
\* the recorded question as its reference.
C26_EnjoyCoffeeSuggestsYes ==
  EnjoyLookedUpAfterLike =>
    /\ ~Greater(DefaultSimilarityThreshold,
                ScoreOf(store.questions[LikeCoffeeId], storeLast.input.question))
    /\ ~storeLast.result.threw
    /\ storeLast.result.value # Null
    /\ storeLast.result.value.suggestedAnswer = "Yes"
    /\ storeLast.result.value.referenceQuestionId = LikeCoffeeId

\* What the lookup of the scenario does: the score is 0.4 * 14/19 + 0.3 * 2/4
\* + 0.2 + 0.1 = 1132/1520, and the lookup returns null
C26_EnjoyCoffeeScoresBelow ==
  EnjoyLookedUpAfterLike =>
    /\ ScoreOf(store.questions[LikeCoffeeId], storeLast.input.question) = Ratio(1132, 1520)
    /\ storeLast.result = Returns(Null)

=============================================================================
